---- MODULE Spec2Model ----
(***************************************************************************)
(* JcampFX backtester: the replay engine (backtester/engine.py), the       *)
(* account ledger and trade state machine (backtester/account.py,          *)
(* backtester/trade.py), the exit manager (src/exit_manager.py) and the    *)
(* anti-flip regime filter (src/dcrd/dcrd_engine.py).                      *)
(*                                                                         *)
(* Units.  Prices are integers in tenths of a pip of the trade's own pair  *)
(* (1.1000 on EURUSD is 110000), so PIP_SIZE is 10 units for every pair.   *)
(* R-multiples of one leg are in 1/100 R, a trade's total R in 1/10000 R,  *)
(* daily_r_used in 1/1000000 R, lot sizes in 1/100 lot and money in        *)
(* 1/1000 USD.  All inputs are whole pips with an even risk distance so    *)
(* that every division of the source is exact in these units.              *)
(***************************************************************************)
EXTENDS Integers, Sequences, FiniteSets, TLC

VARIABLES
    dcrd_state,      \* DCRDEngine._state: dict pair -> _AntiFlipState
    ret,             \* value returned by the last call whose result is kept
    call,            \* the last scoring call: pair, raw score, state before it
    hist,            \* per pair, the candidates of the most recent calls
    trades,          \* every BacktestTrade created so far, by creation order
    open_trades,     \* BacktestAccount.open_trades (list of trade ids)
    closed_trades,   \* BacktestAccount.closed_trades (list of trade ids)
    equity,          \* BacktestAccount.equity
    daily_r_used,    \* BacktestAccount.daily_r_used
    daily_trade_count,
    last_reset_date, \* BacktestAccount._last_reset_date (-1 is None)
    equity_history,  \* BacktestAccount.equity_history
    last_close,      \* run(): last_close, dict pair -> close price
    rb_window_cache, \* run(): the rolling window of each pair, a list of
                     \* consecutive bars of the pair written as the numbers
                     \* of its oldest and of its newest bar
    bar_count,       \* run(): events popped so far
    now,             \* run(): end_time of the event popped last
    step,            \* run(): what the loop body did with that event
    heap,            \* run(): the event queue, a set of (end_time, pair, idx)
    pushed,          \* the events in the order heappush inserted them
    processed,       \* the events in the order heappop returned them
    performance_tracker, \* BrainCore.performance_tracker: the add_trade calls
    _states,         \* PerformanceTracker._states, dict strategy -> state
    cycle,           \* the successive run() calls made on one engine
    converter,       \* RangeBarConverter: the open bar and the last tick time
    checked          \* the arguments of the last _check_exits_on_bar call

vars == <<dcrd_state, ret, call, hist, trades, open_trades, closed_trades,
          equity, daily_r_used, daily_trade_count, last_reset_date,
          equity_history, last_close, rb_window_cache, bar_count, now, step,
          heap, pushed, processed, performance_tracker, _states, cycle,
          converter, checked>>

dcrdVars == <<dcrd_state, ret, call, hist>>
acctVars == <<trades, open_trades, closed_trades, equity, daily_r_used,
              daily_trade_count, last_reset_date, equity_history>>
loopVars == <<last_close, rb_window_cache, bar_count, now, step>>
queueVars == <<heap, pushed, processed>>
brainVars == <<performance_tracker, _states>>
cycleVars == <<cycle>>
exitVars == <<checked>>
feedVars == <<converter>>

-----------------------------------------------------------------------------
(* Bounds of the model *)

MaxTrades == 2       \* trades opened in one run
MaxBars == 3         \* events replayed after the warm-up

-----------------------------------------------------------------------------
(* src/config.py *)

PIP_SIZE == 10
COMMISSION_PER_LOT_RT == 7
SLIPPAGE_PIPS == 1
DAILY_LOSS_CAP_R == 2
CHANDELIER_FLOOR_MAJORS == 15
CHANDELIER_FLOOR_JPY == 25
WEEKEND_CLOSE_MINUTES == 20
ANTI_FLIP_THRESHOLD_PTS == 10
ANTI_FLIP_PERSISTENCE == 2
STRATEGY_TRENDRIDER_MIN_CS == 90
STRATEGY_BREAKOUTRIDER_MIN_CS == 30
REGIME_DETERIORATION_THRESHOLD == 40

Pairs == {"EURUSD", "USDJPY"}
JPY_PAIRS == {"USDJPY", "AUDJPY"}

REGIME_TRENDING == "trending"
REGIME_TRANSITIONAL == "transitional"
REGIME_RANGE == "range"
Regimes == {REGIME_TRENDING, REGIME_TRANSITIONAL, REGIME_RANGE}

None == "None"

Abs(x) == IF x < 0 THEN -x ELSE x
Max2(a, b) == IF a >= b THEN a ELSE b
Min2(a, b) == IF a <= b THEN a ELSE b
Max3(a, b, c) == Max2(a, Max2(b, c))

-----------------------------------------------------------------------------
(* src/dcrd/dcrd_engine.py : the anti-flip filter *)

_raw_regime(score) ==
    IF score >= STRATEGY_TRENDRIDER_MIN_CS THEN REGIME_TRENDING
    ELSE IF score >= STRATEGY_BREAKOUTRIDER_MIN_CS THEN REGIME_TRANSITIONAL
    ELSE REGIME_RANGE

_regime_boundary(from_regime, to_regime) ==
    IF {from_regime, to_regime} = {REGIME_TRENDING, REGIME_TRANSITIONAL}
    THEN STRATEGY_TRENDRIDER_MIN_CS
    ELSE IF {from_regime, to_regime} = {REGIME_TRANSITIONAL, REGIME_RANGE}
    THEN STRATEGY_BREAKOUTRIDER_MIN_CS
    ELSE 50

_AntiFlipState ==
    [confirmed_regime |-> REGIME_TRANSITIONAL, confirmed_score |-> 50,
     pending_regime |-> None, pending_score |-> 0, pending_count |-> 0]

\* faulty variant of _get_state: one state object serves every pair
_get_state_shared(st, pair) ==
    IF st # <<>> THEN st[CHOOSE p \in DOMAIN st : TRUE] ELSE _AntiFlipState

\* the state object of a pair, created on first use
_get_state(st, pair) ==
    IF pair \in DOMAIN st THEN st[pair] ELSE _AntiFlipState

\* faulty variant of ClearPending: the pending transition is kept
ClearPendingKept(s) == s

\* faulty variant of ClearPending: the counter survives
ClearPendingRegimeOnly(s) == [s EXCEPT !.pending_regime = None]

\* state.pending_regime = None; state.pending_count = 0, as done when the raw
\* regime is the confirmed one or the cross is too small
ClearPending(s) == [s EXCEPT !.pending_regime = None, !.pending_count = 0]

\* faulty variant of PendingState: the counter is never restarted
PendingStateNoRestart(s, new_score, new_regime) ==
    [s EXCEPT !.pending_regime = new_regime, !.pending_score = new_score,
              !.pending_count = @ + 1]

\* the state left by the branch taken when the pending counter has not
\* reached the persistence requirement
PendingState(s, new_score, new_regime) ==
    IF s.pending_regime = new_regime
    THEN [s EXCEPT !.pending_count = @ + 1, !.pending_score = new_score]
    ELSE [s EXCEPT !.pending_regime = new_regime,
                   !.pending_score = new_score, !.pending_count = 1]

\* faulty variant of PendingReturn: the raw score leaks to the caller
PendingReturnRaw(s, new_score) == <<new_score, s.confirmed_regime>>

\* the value returned while a transition is pending
PendingReturn(s, new_score) == <<s.confirmed_score, s.confirmed_regime>>

\* whether a cross of the given magnitude is ignored
CrossTooSmall(cross_magnitude) == cross_magnitude < ANTI_FLIP_THRESHOLD_PTS

\* faulty variant of _apply_anti_flip: an ignored cross still moves the
\* confirmed score
_apply_anti_flip_tracks_score(s, new_score, new_regime) ==
    IF new_regime = s.confirmed_regime
    THEN [state |-> ClearPending([s EXCEPT !.confirmed_score = new_score]),
          out |-> <<new_score, s.confirmed_regime>>]
    ELSE LET boundary == _regime_boundary(s.confirmed_regime, new_regime)
             cross_magnitude == Abs(new_score - boundary)
         IN IF CrossTooSmall(cross_magnitude)
            THEN [state |-> ClearPending([s EXCEPT !.confirmed_score = new_score]),
                  out |-> <<s.confirmed_score, s.confirmed_regime>>]
            ELSE LET p == PendingState(s, new_score, new_regime)
                 IN IF p.pending_count >= ANTI_FLIP_PERSISTENCE
                    THEN [state |-> [p EXCEPT !.confirmed_regime = new_regime,
                                              !.confirmed_score = new_score,
                                              !.pending_regime = None,
                                              !.pending_count = 0],
                          out |-> <<new_score, new_regime>>]
                    ELSE [state |-> p, out |-> PendingReturn(p, new_score)]

\* _apply_anti_flip: the new state object of the pair and the returned pair
\* (score, regime)
_apply_anti_flip(s, new_score, new_regime) ==
    IF new_regime = s.confirmed_regime
    THEN [state |-> ClearPending([s EXCEPT !.confirmed_score = new_score]),
          out |-> <<new_score, s.confirmed_regime>>]
    ELSE LET boundary == _regime_boundary(s.confirmed_regime, new_regime)
             cross_magnitude == Abs(new_score - boundary)
         IN IF CrossTooSmall(cross_magnitude)
            THEN [state |-> ClearPending(s),
                  out |-> <<s.confirmed_score, s.confirmed_regime>>]
            ELSE LET p == PendingState(s, new_score, new_regime)
                 IN IF p.pending_count >= ANTI_FLIP_PERSISTENCE
                    THEN [state |-> [p EXCEPT !.confirmed_regime = new_regime,
                                              !.confirmed_score = new_score,
                                              !.pending_regime = None,
                                              !.pending_count = 0],
                          out |-> <<new_score, new_regime>>]
                    ELSE [state |-> p, out |-> PendingReturn(p, new_score)]

\* the candidate regime of a call: the raw regime when it differs from the
\* confirmed one and the cross qualifies, None otherwise
Candidate(s, new_score, new_regime) ==
    IF new_regime # s.confirmed_regime
       /\ ~CrossTooSmall(Abs(new_score
                             - _regime_boundary(s.confirmed_regime, new_regime)))
    THEN new_regime ELSE None

\* the last ANTI_FLIP_PERSISTENCE candidates of a pair, newest last
Remember(h, c) ==
    LET all == Append(h, c)
    IN IF Len(all) > ANTI_FLIP_PERSISTENCE
       THEN SubSeq(all, Len(all) - ANTI_FLIP_PERSISTENCE + 1, Len(all))
       ELSE all

-----------------------------------------------------------------------------
(* src/exit_manager.py *)

\* faulty variant of get_partial_exit_pct: the score 85 is in the top tier
get_partial_exit_pct_inclusive(composite_score_at_entry) ==
    IF composite_score_at_entry >= 85 THEN 60
    ELSE IF composite_score_at_entry >= 70 THEN 70
    ELSE IF composite_score_at_entry >= 30 THEN 75
    ELSE 80

get_partial_exit_pct(composite_score_at_entry) ==
    IF composite_score_at_entry > 85 THEN 60
    ELSE IF composite_score_at_entry >= 70 THEN 70
    ELSE IF composite_score_at_entry >= 30 THEN 75
    ELSE 80

\* PARTIAL_EXIT_R * r_distance with PARTIAL_EXIT_R = 1.5
calculate_1_5r_price(entry, sl, direction) ==
    LET r_distance == Abs(entry - sl)
        target == (3 * r_distance) \div 2
    IN IF direction = "BUY" THEN entry + target ELSE entry - target

_chandelier_floor_pips(pair) ==
    IF pair \in JPY_PAIRS THEN CHANDELIER_FLOOR_JPY ELSE CHANDELIER_FLOOR_MAJORS

initial_chandelier_sl(entry, sl, direction, atr14, pair) ==
    LET r_distance == Abs(entry - sl)
        half_r == r_distance \div 2
        floor_price == _chandelier_floor_pips(pair) * PIP_SIZE
        chandelier_distance == Max3(half_r, atr14, floor_price)
        partial_exit_price == calculate_1_5r_price(entry, sl, direction)
    IN IF direction = "BUY"
       THEN partial_exit_price - chandelier_distance
       ELSE partial_exit_price + chandelier_distance

\* faulty variant of update_chandelier: the stop follows the extreme both ways
update_chandelier_unclamped(new_extreme, current_sl, direction, atr14, initial_r_pips, pair) ==
    LET half_r_price == (initial_r_pips * PIP_SIZE) \div 2
        floor_price == _chandelier_floor_pips(pair) * PIP_SIZE
        chandelier_distance == Max3(half_r_price, atr14, floor_price)
    IN IF direction = "BUY"
       THEN new_extreme - chandelier_distance
       ELSE new_extreme + chandelier_distance

update_chandelier(new_extreme, current_sl, direction, atr14, initial_r_pips, pair) ==
    LET half_r_price == (initial_r_pips * PIP_SIZE) \div 2
        floor_price == _chandelier_floor_pips(pair) * PIP_SIZE
        chandelier_distance == Max3(half_r_price, atr14, floor_price)
    IN IF direction = "BUY"
       THEN Max2(current_sl, new_extreme - chandelier_distance)
       ELSE Min2(current_sl, new_extreme + chandelier_distance)

\* R of one leg, in 1/100 R
calculate_r_multiple(entry, exit_price, sl, direction) ==
    LET r_distance == Abs(entry - sl)
    IN IF r_distance <= 0 THEN 0
       ELSE IF direction = "BUY"
       THEN ((exit_price - entry) * 100) \div r_distance
       ELSE ((entry - exit_price) * 100) \div r_distance

\* not in src/exit_manager.py; from the specification of the
\* REGIME_DETERIORATION transition
should_force_close_runner(entry_score, current_score) ==
    entry_score - current_score > REGIME_DETERIORATION_THRESHOLD

-----------------------------------------------------------------------------
(* backtester/cost_model.py *)

apply_entry_slippage(price, direction, pair) ==
    LET slip == SLIPPAGE_PIPS * PIP_SIZE
    IN IF direction = "BUY" THEN price + slip ELSE price - slip

\* faulty variant of apply_exit_slippage: the fill is improved, not worsened
apply_exit_slippage_favourable(price, direction, pair) ==
    LET slip == SLIPPAGE_PIPS * PIP_SIZE
    IN IF direction = "BUY" THEN price + slip ELSE price - slip

apply_exit_slippage(price, direction, pair) ==
    LET slip == SLIPPAGE_PIPS * PIP_SIZE
    IN IF direction = "BUY" THEN price - slip ELSE price + slip

\* in 1/1000 USD for a lot size in 1/100 lot
round_trip_commission(lot_size) == COMMISSION_PER_LOT_RT * 10 * lot_size

-----------------------------------------------------------------------------
(* backtester/trade.py, backtester/account.py *)

\* timestamps are minutes since 00:00 UTC of day 0 of the replay window
date(ts) == ts \div 1440

BacktestTrade(id, pair, direction, strategy, entry_price, sl_price, entry_time, lot_size, composite_score, partial_exit_pct) ==
    [trade_id |-> id, pair |-> pair, direction |-> direction,
     strategy |-> strategy, entry_price |-> entry_price,
     sl_price |-> sl_price, entry_time |-> entry_time,
     lot_size |-> lot_size,
     initial_r_pips |-> Abs(entry_price - sl_price) \div PIP_SIZE,
     composite_score |-> composite_score,
     partial_exit_pct |-> partial_exit_pct,
     phase |-> "open",
     partial_exit_price |-> 0, partial_exit_time |-> -1, chandelier_sl |-> 0,
     close_price |-> 0, close_time |-> -1, close_reason |-> "",
     r_multiple_partial |-> 0, r_multiple_runner |-> 0, r_multiple_total |-> 0,
     pnl_usd |-> 0, commission_usd |-> 0, atr14_at_partial |-> 0]

\* the account as one value
Acct == [trades |-> trades, open_trades |-> open_trades,
         closed_trades |-> closed_trades, equity |-> equity,
         daily_r_used |-> daily_r_used,
         daily_trade_count |-> daily_trade_count,
         last_reset_date |-> last_reset_date,
         equity_history |-> equity_history]

_record_equity(A, timestamp) ==
    [A EXCEPT !.equity_history = Append(@, <<timestamp, A.equity>>)]

\* list.remove(x): drop the first occurrence
RECURSIVE Remove(_, _)
Remove(list, x) ==
    IF list = <<>> THEN <<>>
    ELSE IF Head(list) = x THEN Tail(list)
    ELSE <<Head(list)>> \o Remove(Tail(list), x)

_pip_value_usd(pair) == 10

open_trade(A, trade) ==
    LET commission == round_trip_commission(trade.lot_size)
        t == [trade EXCEPT !.commission_usd = commission]
        B == [A EXCEPT !.trades = Append(@, t),
                       !.equity = @ - commission,
                       !.daily_trade_count = @ + 1,
                       !.open_trades = Append(@, t.trade_id)]
    IN _record_equity(B, t.entry_time)

\* faulty variant of apply_partial_exit: the partial leg is settled into the
\* equity at once
apply_partial_exit_settles(A, id, exit_price, timestamp, atr14) ==
    LET trade == A.trades[id]
        slipped_price == apply_exit_slippage(exit_price, trade.direction, trade.pair)
        r_partial == calculate_r_multiple(trade.entry_price, slipped_price,
                                          trade.sl_price, trade.direction)
        B == [A EXCEPT !.trades[id] =
                [trade EXCEPT !.partial_exit_price = slipped_price,
                              !.partial_exit_time = timestamp,
                              !.r_multiple_partial = r_partial,
                              !.atr14_at_partial = atr14,
                              !.chandelier_sl =
                                  initial_chandelier_sl(trade.entry_price, trade.sl_price,
                                                        trade.direction, atr14, trade.pair),
                              !.phase = "runner"],
                         !.equity = @ + (trade.lot_size * trade.partial_exit_pct
                                         * Abs(slipped_price - trade.entry_price)) \div 100]
    IN _record_equity(B, timestamp)

apply_partial_exit(A, id, exit_price, timestamp, atr14) ==
    LET trade == A.trades[id]
        slipped_price == apply_exit_slippage(exit_price, trade.direction, trade.pair)
        r_partial == calculate_r_multiple(trade.entry_price, slipped_price,
                                          trade.sl_price, trade.direction)
    IN [A EXCEPT !.trades[id] =
          [trade EXCEPT !.partial_exit_price = slipped_price,
                        !.partial_exit_time = timestamp,
                        !.r_multiple_partial = r_partial,
                        !.atr14_at_partial = atr14,
                        !.chandelier_sl =
                            initial_chandelier_sl(trade.entry_price, trade.sl_price,
                                                  trade.direction, atr14, trade.pair),
                        !.phase = "runner"]]

\* faulty variant of TotalR: the legs are added without their weights
TotalRUnweighted(partial_exit_pct, r_multiple_partial, r_runner) ==
    100 * (r_multiple_partial + r_runner)

\* r_multiple_total of a two-leg trade, in 1/10000 R, for a fraction in
\* percent and leg R-multiples in 1/100 R
TotalR(partial_exit_pct, r_multiple_partial, r_runner) ==
    partial_exit_pct * r_multiple_partial + (100 - partial_exit_pct) * r_runner

\* the trade as close_trade leaves it: prices, R-multiples (total in
\* 1/10000 R) and PnL (1/1000 USD)
ClosedTrade(trade, exit_price, timestamp, reason) ==
    LET slipped_price == apply_exit_slippage(exit_price, trade.direction, trade.pair)
        pip == PIP_SIZE
        r == calculate_r_multiple(trade.entry_price, slipped_price,
                                  trade.sl_price, trade.direction)
        pips(price) == IF trade.direction = "BUY"
                       THEN (price - trade.entry_price) \div pip
                       ELSE (trade.entry_price - price) \div pip
        runner_pct == 100 - trade.partial_exit_pct
        c == [trade EXCEPT !.close_price = slipped_price,
                           !.close_time = timestamp,
                           !.close_reason = reason,
                           !.phase = "closed",
                           !.r_multiple_runner = r]
    IN IF trade.partial_exit_time # -1
       THEN [c EXCEPT
               !.r_multiple_total = TotalR(trade.partial_exit_pct,
                                           trade.r_multiple_partial, r),
               !.pnl_usd = (((trade.lot_size * trade.partial_exit_pct
                               * pips(trade.partial_exit_price)
                              + trade.lot_size * runner_pct * pips(slipped_price))
                             * _pip_value_usd(trade.pair)) \div 10)
                           - trade.commission_usd]
       ELSE [c EXCEPT
               !.r_multiple_total = r * 100,
               !.pnl_usd = trade.lot_size * pips(slipped_price)
                           * _pip_value_usd(trade.pair) * 10
                           - trade.commission_usd]

\* the amount close_trade adds to daily_r_used, in 1/1000000 R
DailyLoss(c) ==
    IF c.r_multiple_total < 0
    THEN IF c.partial_exit_time # -1
         THEN Abs(c.r_multiple_total * c.partial_exit_pct)
         ELSE Abs(c.r_multiple_total) * 100
    ELSE 0

\* faulty variant of SettledEquity: the commission is charged a second time
SettledEquityNet(eq, c) == eq + c.pnl_usd

\* the equity after the close: the gross PnL is added back
SettledEquity(eq, c) == eq + c.pnl_usd + c.commission_usd

\* faulty variant of OpenAfterClose: the trade stays in open_trades
OpenAfterCloseKept(list, id) == list

\* open_trades after the close
OpenAfterClose(list, id) == Remove(list, id)

close_trade(A, id, exit_price, timestamp, reason) ==
    LET c == ClosedTrade(A.trades[id], exit_price, timestamp, reason)
        B == [A EXCEPT !.trades[id] = c,
                       !.equity = SettledEquity(@, c),
                       !.daily_r_used = @ + DailyLoss(c),
                       !.open_trades = OpenAfterClose(@, id),
                       !.closed_trades = Append(@, id)]
    IN _record_equity(B, timestamp)

\* faulty variant of update_chandelier_for_trade: the trailing stop is
\* written over the original stop as well
update_chandelier_moves_stop(A, id, bar_extreme, atr14) ==
    LET trade == A.trades[id]
        sl == update_chandelier(bar_extreme, trade.chandelier_sl, trade.direction,
                                atr14, trade.initial_r_pips, trade.pair)
    IN IF trade.phase # "runner" THEN A
       ELSE [A EXCEPT !.trades[id].chandelier_sl = sl, !.trades[id].sl_price = sl]

update_chandelier_for_trade(A, id, bar_extreme, atr14) ==
    LET trade == A.trades[id]
    IN IF trade.phase # "runner" THEN A
       ELSE [A EXCEPT !.trades[id].chandelier_sl =
                update_chandelier(bar_extreme, trade.chandelier_sl,
                                  trade.direction, atr14,
                                  trade.initial_r_pips, trade.pair)]

is_daily_cap_hit(A) == A.daily_r_used >= DAILY_LOSS_CAP_R * 1000000

\* faulty variant of reset_daily_if_needed: a call on the day of the last
\* reset resets again
reset_daily_every_call(A, current_time) ==
    LET today == date(current_time)
    IN IF A.last_reset_date = -1 \/ today >= A.last_reset_date
       THEN [A EXCEPT !.daily_r_used = 0, !.daily_trade_count = 0,
                      !.last_reset_date = today]
       ELSE A

reset_daily_if_needed(A, current_time) ==
    LET today == date(current_time)
    IN IF A.last_reset_date = -1 \/ today > A.last_reset_date
       THEN [A EXCEPT !.daily_r_used = 0, !.daily_trade_count = 0,
                      !.last_reset_date = today]
       ELSE A

-----------------------------------------------------------------------------
(* State after construction *)

NoCall == [pair |-> None, score |-> 0, regime |-> None, known |-> FALSE,
           before |-> _AntiFlipState]
\* step: kind is the branch the loop body took; flagged is whether exit
\* resolution read a phantom or gap-adjacent bar (it reads the bar once per
\* open trade of the pair); sl_touch and target_touch are the trades in phase open on that
\* pair whose stop / 1.5R target the bar touched; before is the phase of
\* every trade when the bar was popped; after_exits is open_trades and
\* r_after_exits is daily_r_used once exit resolution was done
NoStep == [kind |-> "init", flagged |-> FALSE,
           sl_touch |-> {}, target_touch |-> {}, before |-> <<>>,
           after_exits |-> <<>>, r_after_exits |-> 0, opened |-> 0,
           score |-> 50]

INITIAL_EQUITY == 500000   \* run(initial_equity=500.0), in 1/1000 USD

InitDcrd ==
    /\ dcrd_state = <<>>
    /\ ret = <<50, REGIME_TRANSITIONAL>>
    /\ call = NoCall
    /\ hist = [p \in Pairs |-> <<>>]

InitAccount ==
    /\ trades = <<>>
    /\ open_trades = <<>>
    /\ closed_trades = <<>>
    /\ equity = INITIAL_EQUITY
    /\ daily_r_used = 0
    /\ daily_trade_count = 0
    /\ last_reset_date = -1
    /\ equity_history = <<>>

\* rb_window_cache[pair] = []: no bar of the pair yet
EmptyWindow == [first |-> 1, last |-> 0]
\* len(rb_window_cache[pair])
WindowLen(window) == window.last - window.first + 1

InitLoop ==
    /\ last_close = <<>>
    /\ rb_window_cache = [p \in Pairs |-> EmptyWindow]
    /\ bar_count = 0
    /\ now = 0
    /\ step = NoStep

\* the event queue before the first heappush
InitQueue ==
    /\ heap = {}
    /\ pushed = <<>>
    /\ processed = <<>>

\* BrainCore(): a tracker with no trade recorded
InitBrain ==
    /\ performance_tracker = <<>>
    /\ _states = <<>>

\* the first run() on the engine, nothing replayed yet
\* run: which run() call is being made; script: the events the first run
\* popped; pos: how many of them the second run has popped; start: the
\* classifier state each run started from; log: what each run decided;
\* rebuilt: whether the second run is made on a new engine
FirstCycle == [run |-> 1, script |-> <<>>, pos |-> 0, start |-> <<>>,
               log |-> <<>>, rebuilt |-> FALSE]
InitCycle == cycle = FirstCycle

\* no _check_exits_on_bar call made yet
NoCheck == [id |-> 0, bar |-> <<>>, current_composite_score |-> 0, trade |-> <<>>]

InitExit == checked = NoCheck

\* RangeBarConverter(): no open bar, no tick seen (-1 is None)
NoBar == [_bar_open |-> -1, _bar_high |-> -1, _bar_low |-> -1,
          _bar_start |-> -1, _bar_tick_vol |-> 0, _last_tick_ts |-> -1]

InitFeed == converter = NoBar

Init ==
    /\ InitDcrd /\ InitAccount /\ InitLoop /\ InitQueue /\ InitBrain /\ InitCycle
    /\ InitExit /\ InitFeed

-----------------------------------------------------------------------------
(* The classifier on its own: DCRDEngine.score / score_components and      *)
(* reset_state, called with raw scores of FlipScores                       *)

FlipScores == {0, 15, 20, 29, 30, 45, 54, 65, 70, 80, 83, 85, 89, 90, 100}
FlipPairs == {"EURUSD"}

\* what one scoring call does to the classifier: the raw score is labelled
\* by _raw_regime and passed through the filter
ScoreCall(pair, raw_score) ==
    LET s == _get_state(dcrd_state, pair)
        raw_regime == _raw_regime(raw_score)
        r == _apply_anti_flip(s, raw_score, raw_regime)
    IN /\ dcrd_state' = [p \in (DOMAIN dcrd_state) \cup {pair} |->
                            IF p = pair THEN r.state ELSE dcrd_state[p]]
       /\ ret' = r.out
       /\ call' = [pair |-> pair, score |-> raw_score, regime |-> raw_regime,
                   known |-> pair \in DOMAIN dcrd_state, before |-> s]
       /\ hist' = [hist EXCEPT
                     ![pair] = Remember(@, Candidate(s, raw_score, raw_regime))]

score(pair, raw_score) ==
    /\ ScoreCall(pair, raw_score)
    /\ UNCHANGED <<acctVars, loopVars, queueVars, exitVars, feedVars, brainVars, cycleVars>>

\* reset_state(pair): forget the state of one pair
reset_state(pair) ==
    /\ pair \in DOMAIN dcrd_state
    /\ dcrd_state' = [p \in (DOMAIN dcrd_state) \ {pair} |-> dcrd_state[p]]
    /\ hist' = [hist EXCEPT ![pair] = <<>>]
    /\ call' = NoCall
    /\ UNCHANGED <<ret, acctVars, loopVars, queueVars, exitVars, feedVars, brainVars, cycleVars>>

\* reset_state(None): forget every pair
reset_state_all ==
    /\ dcrd_state # <<>>
    /\ dcrd_state' = <<>>
    /\ hist' = [p \in Pairs |-> <<>>]
    /\ call' = NoCall
    /\ UNCHANGED <<ret, acctVars, loopVars, queueVars, exitVars, feedVars, brainVars, cycleVars>>

NextFlip ==
    \/ \E pair \in FlipPairs, raw_score \in FlipScores : score(pair, raw_score)
    \/ \E pair \in FlipPairs : reset_state(pair)
    \/ reset_state_all

SpecFlip == Init /\ [][NextFlip]_vars

\* the state of the pair of the last scoring call, after that call
After == dcrd_state[call.pair]
Called == call.pair # None
Committed == Called /\ After.confirmed_regime # call.before.confirmed_regime

(* C4: a raw score that crosses the boundary 70 or 30 by less than 15      *)
(* points never changes the confirmed regime: a call made with confirmed   *)
(* trending and a raw score strictly between 55 and 70, with confirmed     *)
(* transitional and a raw score in 70..84 or in 16..29, or with confirmed  *)
(* range and a raw score in 30..44, leaves the confirmed regime as it was. *)
C4_SmallCrossKeepsRegime ==
    Called =>
      LET x == call.score
          b == call.before.confirmed_regime
      IN (\/ b = REGIME_TRENDING /\ 55 < x /\ x < 70
          \/ b = REGIME_TRANSITIONAL /\ 70 <= x /\ x < 85
          \/ b = REGIME_TRANSITIONAL /\ 15 < x /\ x < 30
          \/ b = REGIME_RANGE /\ 30 <= x /\ x < 45)
         => After.confirmed_regime = b

(* C17: the raw regime label of a composite score is trending for every   *)
(* score >= 70, transitional for every score in [30, 70) and range for     *)
(* every score < 30: 70 is trending, 69 and 30 are transitional, 29 is     *)
(* range.                                                                  *)
C17_RawRegimeBoundaries ==
    Called =>
        call.regime = IF call.score >= 70 THEN REGIME_TRENDING
                      ELSE IF call.score >= 30 THEN REGIME_TRANSITIONAL
                      ELSE REGIME_RANGE

(* C18: with the regime confirmed trending, the raw scores 85 and 83, then *)
(* a single dip to 54 and the bounce back to 80 before a second            *)
(* confirmation, each leave the confirmed regime trending.                 *)
C18_DipAndBounceStaysTrending ==
    (/\ Called
     /\ call.before.confirmed_regime = REGIME_TRENDING
     /\ \/ call.score \in {85, 83, 54} /\ call.before.pending_regime = None
        \/ /\ call.score = 80
           /\ call.before.pending_regime = REGIME_TRANSITIONAL
           /\ call.before.pending_score = 54
           /\ call.before.pending_count = 1)
    => /\ After.confirmed_regime = REGIME_TRENDING
       /\ ret[2] = REGIME_TRENDING

(* C5: when a transition is pending and the next raw score falls back into *)
(* the confirmed regime, or crosses by less than the threshold, the        *)
(* confirmed regime is unchanged and the pending transition is cleared.    *)
C5_ReversalClearsPending ==
    (/\ Called
     /\ call.before.pending_count >= 1
     /\ \/ call.regime = call.before.confirmed_regime
        \/ Abs(call.score - _regime_boundary(call.before.confirmed_regime,
                                             call.regime))
             < ANTI_FLIP_THRESHOLD_PTS)
    => /\ After.confirmed_regime = call.before.confirmed_regime
       /\ After.pending_count = 0
       /\ After.pending_regime = None

C5_Witness ==
    /\ Called
    /\ call.before.pending_count = 1
    /\ call.before.pending_regime = REGIME_TRENDING
    /\ call.regime = call.before.confirmed_regime
    /\ After.pending_count = 0

(* C6: the confirmed regime changes exactly on a call where the same       *)
(* candidate regime has qualified on ANTI_FLIP_PERSISTENCE consecutive     *)
(* calls; on that call the raw regime and raw score become the confirmed   *)
(* ones and the pending state is cleared; a qualifying candidate that      *)
(* differs from the pending one restarts the counter at 1.                 *)
C6_CommitAfterPersistence ==
    Called =>
      LET h == hist[call.pair]
          c == Candidate(call.before, call.score, call.regime)
          full == /\ Len(h) = ANTI_FLIP_PERSISTENCE
                  /\ h[1] # None
                  /\ \A i \in 1..Len(h) : h[i] = h[1]
      IN /\ Committed <=> full
         /\ Committed => /\ h[Len(h)] = call.regime
                         /\ After.confirmed_regime = call.regime
                         /\ After.confirmed_score = call.score
                         /\ After.pending_regime = None
                         /\ After.pending_count = 0
         /\ (c # None /\ c # call.before.pending_regime)
              => /\ After.pending_regime = c
                 /\ After.pending_count = 1
                 /\ After.confirmed_regime = call.before.confirmed_regime

C6_Witness ==
    /\ Committed
    /\ call.before.pending_count = ANTI_FLIP_PERSISTENCE - 1
    /\ call.before.confirmed_regime = REGIME_TRENDING
    /\ After.confirmed_regime = REGIME_TRANSITIONAL

(* C7: every call returns exactly the score and regime confirmed for the   *)
(* pair after the call; unless the call commits a transition, a raw score  *)
(* outside the confirmed regime is answered with the previously confirmed  *)
(* score and regime.                                                       *)
C7_ReturnsConfirmed ==
    Called =>
      /\ ret = <<After.confirmed_score, After.confirmed_regime>>
      /\ (call.regime # call.before.confirmed_regime /\ ~Committed)
           => ret = <<call.before.confirmed_score, call.before.confirmed_regime>>

C7_Witness ==
    /\ Called
    /\ After.pending_count = 1
    /\ call.regime # After.confirmed_regime
    /\ call.score # After.confirmed_score
    /\ ret = <<call.before.confirmed_score, call.before.confirmed_regime>>

(* C37: after every scoring call, for every pair that has a state object,  *)
(* the raw regime label of the confirmed score is the confirmed regime.    *)
C37_ConfirmedScoreInConfirmedRegime ==
    \A p \in DOMAIN dcrd_state :
        _raw_regime(dcrd_state[p].confirmed_score) = dcrd_state[p].confirmed_regime

\* a transition is pending with a raw score of another regime, and the
\* confirmed score still belongs to the confirmed regime
C37_Witness ==
    /\ Called
    /\ After.pending_count = 1
    /\ After.confirmed_regime = REGIME_TRENDING
    /\ After.confirmed_score = 100
    /\ call.regime = REGIME_RANGE
    /\ _raw_regime(After.confirmed_score) = REGIME_TRENDING

(* C38: after every scoring call, for every pair that has a state object:  *)
(* 0 <= pending_count < ANTI_FLIP_PERSISTENCE; pending_regime is unset     *)
(* exactly when pending_count is 0; a set pending_regime differs from the  *)
(* confirmed regime.                                                       *)
C38_PendingStateWellFormed ==
    \A p \in DOMAIN dcrd_state :
        LET s == dcrd_state[p]
        IN /\ 0 <= s.pending_count
           /\ s.pending_count < ANTI_FLIP_PERSISTENCE
           /\ (s.pending_regime = None) <=> (s.pending_count = 0)
           /\ s.pending_regime # None => s.pending_regime # s.confirmed_regime

\* a pending transition was dropped by a call that fell back into the
\* confirmed regime
C38_Witness ==
    /\ Called
    /\ call.before.pending_count = 1
    /\ call.before.pending_regime = REGIME_RANGE
    /\ call.regime = call.before.confirmed_regime
    /\ After.pending_regime = None
    /\ After.pending_count = 0

-----------------------------------------------------------------------------
(* The classifier serving two pairs: score and reset_state called for      *)
(* either pair of Pairs with raw scores of PairScores                      *)

PairScores == {20, 50, 100}

NextFlipPairs ==
    \/ \E pair \in Pairs, raw_score \in PairScores : score(pair, raw_score)
    \/ \E pair \in Pairs : reset_state(pair)
    \/ reset_state_all

SpecFlipPairs == Init /\ [][NextFlipPairs]_vars

(* C33: the state object of a pair is created by the first scoring call    *)
(* for that pair, from confirmed regime transitional, confirmed score 50   *)
(* and no pending transition; the state object of a pair is changed only   *)
(* by a scoring call for that same pair; it is discarded only by           *)
(* reset_state, and the next scoring call for the pair starts again from   *)
(* the default state.                                                      *)
C33_StatePerPair ==
    [][\A p \in Pairs :
         /\ (p \notin DOMAIN dcrd_state /\ p \in DOMAIN dcrd_state')
            => /\ call'.pair = p
               /\ dcrd_state'[p] = _apply_anti_flip(
                     [confirmed_regime |-> REGIME_TRANSITIONAL,
                      confirmed_score |-> 50, pending_regime |-> None,
                      pending_score |-> 0, pending_count |-> 0],
                     call'.score, call'.regime).state
         /\ (p \in DOMAIN dcrd_state /\ p \in DOMAIN dcrd_state'
             /\ dcrd_state'[p] # dcrd_state[p])
            => /\ call'.pair = p
               /\ dcrd_state'[p] = _apply_anti_flip(dcrd_state[p], call'.score,
                                                    call'.regime).state
         /\ (p \in DOMAIN dcrd_state /\ p \notin DOMAIN dcrd_state')
            => call' = NoCall]_vars

\* reset_state("EURUSD") has discarded one pair's state and kept the other's
C33_Witness ==
    /\ call = NoCall
    /\ DOMAIN dcrd_state = {"USDJPY"}
    /\ dcrd_state["USDJPY"].confirmed_regime = REGIME_TRENDING

\* a pair scored for the first time while the other pair's confirmed regime
\* has already moved: it starts from the default state
C33_FreshStateBesideOther ==
    /\ Called
    /\ call.pair = "EURUSD"
    /\ ~call.known
    /\ "USDJPY" \in DOMAIN dcrd_state
    /\ dcrd_state["USDJPY"].confirmed_regime = REGIME_RANGE
    /\ After.confirmed_regime = REGIME_TRANSITIONAL
    /\ After.pending_regime = REGIME_TRENDING

-----------------------------------------------------------------------------
(* backtester/engine.py *)

_DCRD_FALLBACK_SCORE == 50
_ATR_DEFAULT_PIPS == 15
_MIN_BARS_FOR_DCRD == 30
WINDOW_CAP == 300

_estimate_atr(pair) == PIP_SIZE * _ATR_DEFAULT_PIPS

\* day 0 of the replay window is a Thursday (weekday 3, Monday is 0)
START_WEEKDAY == 3
weekday(ts) == (date(ts) + START_WEEKDAY) % 7

\* faulty variant of _is_near_friday_close: the window is open at its start
_is_near_friday_close_late(ts) ==
    IF weekday(ts) # 4 THEN FALSE
    ELSE LET minutes_to_close == (22 * 60 + 0) - (ts % 1440)
         IN 0 <= minutes_to_close /\ minutes_to_close < WEEKEND_CLOSE_MINUTES

_is_near_friday_close(ts) ==
    IF weekday(ts) # 4 THEN FALSE
    ELSE LET minutes_to_close == (22 * 60 + 0) - (ts % 1440)
         IN 0 <= minutes_to_close /\ minutes_to_close <= WEEKEND_CLOSE_MINUTES

\* faulty variant of Fill: the nominal level on every bar
FillNominal(b, nominal) == nominal

\* the fill of an exit on a bar: the tick boundary on a phantom or
\* gap-adjacent bar, the nominal level otherwise
Fill(b, nominal) ==
    IF b.is_phantom \/ b.is_gap_adjacent THEN b.tick_boundary_price ELSE nominal

\* faulty variant of CheckOpenPhase: the 1.5R target is checked first
CheckOpenPhaseTargetFirst(A, trade, b, timestamp, atr14) ==
    LET sl_hit == IF trade.direction = "BUY"
                  THEN b.low <= trade.sl_price
                  ELSE b.high >= trade.sl_price
        target_1_5r == calculate_1_5r_price(trade.entry_price, trade.sl_price,
                                            trade.direction)
        at_1_5r == IF trade.direction = "BUY"
                   THEN b.high >= target_1_5r
                   ELSE b.low <= target_1_5r
    IN IF at_1_5r
       THEN apply_partial_exit(A, trade.trade_id, Fill(b, target_1_5r), timestamp, atr14)
       ELSE IF sl_hit
       THEN close_trade(A, trade.trade_id, Fill(b, trade.sl_price), timestamp, "SL_HIT")
       ELSE A

\* the branch of _check_exits_on_bar for a trade in phase open
CheckOpenPhase(A, trade, b, timestamp, atr14) ==
    LET sl_hit == IF trade.direction = "BUY"
                  THEN b.low <= trade.sl_price
                  ELSE b.high >= trade.sl_price
        target_1_5r == calculate_1_5r_price(trade.entry_price, trade.sl_price,
                                            trade.direction)
        at_1_5r == IF trade.direction = "BUY"
                   THEN b.high >= target_1_5r
                   ELSE b.low <= target_1_5r
    IN IF sl_hit
       THEN close_trade(A, trade.trade_id, Fill(b, trade.sl_price), timestamp, "SL_HIT")
       ELSE IF at_1_5r
       THEN apply_partial_exit(A, trade.trade_id, Fill(b, target_1_5r), timestamp, atr14)
       ELSE A

\* faulty variant of CheckRunnerPhase: the trailing stop is checked before
\* the regime deterioration
CheckRunnerPhaseTrailingFirst(A, trade, b, timestamp, atr14, current_composite_score) ==
    LET bar_extreme == IF trade.direction = "BUY" THEN b.high ELSE b.low
        B == update_chandelier_for_trade(A, trade.trade_id, bar_extreme, atr14)
        t == B.trades[trade.trade_id]
        chandelier_hit == IF t.direction = "BUY"
                          THEN b.low <= t.chandelier_sl
                          ELSE b.high >= t.chandelier_sl
    IN IF chandelier_hit
       THEN close_trade(B, t.trade_id, Fill(b, t.chandelier_sl), timestamp,
                        "CHANDELIER_HIT")
       ELSE IF should_force_close_runner(trade.composite_score, current_composite_score)
       THEN close_trade(A, trade.trade_id, Fill(b, b.close), timestamp,
                        "REGIME_DETERIORATION")
       ELSE B

\* faulty variant of CheckRunnerPhase: the bar is tested against the stop
\* as it was before the bar, and the stop is tightened afterwards
CheckRunnerPhaseTestFirst(A, trade, b, timestamp, atr14, current_composite_score) ==
    IF should_force_close_runner(trade.composite_score, current_composite_score)
    THEN close_trade(A, trade.trade_id, Fill(b, b.close), timestamp,
                     "REGIME_DETERIORATION")
    ELSE LET bar_extreme == IF trade.direction = "BUY" THEN b.high ELSE b.low
             chandelier_hit == IF trade.direction = "BUY"
                               THEN b.low <= trade.chandelier_sl
                               ELSE b.high >= trade.chandelier_sl
         IN IF chandelier_hit
            THEN close_trade(A, trade.trade_id, Fill(b, trade.chandelier_sl),
                             timestamp, "CHANDELIER_HIT")
            ELSE update_chandelier_for_trade(A, trade.trade_id, bar_extreme, atr14)

\* the branch of _check_exits_on_bar for a trade in phase runner
CheckRunnerPhase(A, trade, b, timestamp, atr14, current_composite_score) ==
    IF should_force_close_runner(trade.composite_score, current_composite_score)
    THEN close_trade(A, trade.trade_id, Fill(b, b.close), timestamp,
                     "REGIME_DETERIORATION")
    ELSE LET bar_extreme == IF trade.direction = "BUY" THEN b.high ELSE b.low
             B == update_chandelier_for_trade(A, trade.trade_id, bar_extreme, atr14)
             t == B.trades[trade.trade_id]
             chandelier_hit == IF t.direction = "BUY"
                               THEN b.low <= t.chandelier_sl
                               ELSE b.high >= t.chandelier_sl
         IN IF chandelier_hit
            THEN close_trade(B, t.trade_id, Fill(b, t.chandelier_sl), timestamp,
                             "CHANDELIER_HIT")
            ELSE B

_check_exits_on_bar(A, id, b, timestamp, current_composite_score) ==
    LET trade == A.trades[id]
        atr14 == _estimate_atr(trade.pair)
    IN IF trade.phase = "open"
       THEN CheckOpenPhase(A, trade, b, timestamp, atr14)
       ELSE IF trade.phase = "runner"
       THEN CheckRunnerPhase(A, trade, b, timestamp, atr14, current_composite_score)
       ELSE A

\* [t for t in list(account.open_trades) if t.pair == pair]
RECURSIVE OpenOnPair(_, _, _)
OpenOnPair(A, ids, pair) ==
    IF ids = <<>> THEN <<>>
    ELSE IF A.trades[Head(ids)].pair = pair
    THEN <<Head(ids)>> \o OpenOnPair(A, Tail(ids), pair)
    ELSE OpenOnPair(A, Tail(ids), pair)

\* for trade in open_on_pair: self._check_exits_on_bar(...)
RECURSIVE CheckExits(_, _, _, _, _)
CheckExits(A, ids, b, timestamp, current_composite_score) ==
    IF ids = <<>> THEN A
    ELSE CheckExits(_check_exits_on_bar(A, Head(ids), b, timestamp,
                                        current_composite_score),
                    Tail(ids), b, timestamp, current_composite_score)

\* faulty variant of ClosePx: the trade is closed at its entry price
ClosePxEntry(lc, trade) == trade.entry_price

\* last_close.get(trade.pair, trade.entry_price)
ClosePx(lc, trade) ==
    IF trade.pair \in DOMAIN lc THEN lc[trade.pair] ELSE trade.entry_price

\* for trade in list(account.open_trades): account.close_trade(...)
RECURSIVE CloseAll(_, _, _, _, _)
CloseAll(A, ids, lc, timestamp, reason) ==
    IF ids = <<>> THEN A
    ELSE CloseAll(close_trade(A, Head(ids), ClosePx(lc, A.trades[Head(ids)]),
                              timestamp, reason),
                  Tail(ids), lc, timestamp, reason)

\* faulty variant of _compute_dcrd: a failed scoring yields the score 0
_compute_dcrd_zero(st, pair, outcome) ==
    IF ~outcome.scored
    THEN [state |-> st, score |-> 0, regime |-> _raw_regime(0)]
    ELSE LET r == _apply_anti_flip(_get_state(st, pair), outcome.raw,
                                   _raw_regime(outcome.raw))
         IN [state |-> [p \in (DOMAIN st) \cup {pair} |->
                           IF p = pair THEN r.state ELSE st[p]],
             score |-> r.out[1], regime |-> r.out[2]]

\* _compute_dcrd: outcome.scored is FALSE for missing or short
\* higher-timeframe data and for a scoring error; otherwise outcome.raw is
\* the raw composite that score_components computed
_compute_dcrd(st, pair, outcome) ==
    IF ~outcome.scored
    THEN [state |-> st, score |-> _DCRD_FALLBACK_SCORE,
          regime |-> _raw_regime(_DCRD_FALLBACK_SCORE)]
    ELSE LET r == _apply_anti_flip(_get_state(st, pair), outcome.raw,
                                   _raw_regime(outcome.raw))
         IN [state |-> [p \in (DOMAIN st) \cup {pair} |->
                           IF p = pair THEN r.state ELSE st[p]],
             score |-> r.out[1], regime |-> r.out[2]]

\* _open_trade: the BacktestTrade built from a signal
_open_trade(A, signal, pair, timestamp) ==
    LET entry_price == apply_entry_slippage(signal.entry, signal.direction, pair)
    IN open_trade(A, BacktestTrade(Len(A.trades) + 1, pair, signal.direction,
                                   signal.strategy, entry_price, signal.sl,
                                   timestamp, signal.lot_size,
                                   signal.composite_score,
                                   signal.partial_exit_pct))

\* faulty variant of SkipEntry: the daily cap is not looked at
SkipEntryWeekendOnly(cap_hit, near_close) == near_close

\* whether the loop skips new entries after a forced liquidation
SkipEntry(cap_hit, near_close) == cap_hit \/ near_close

\* whether the bar touches the stop / the 1.5R target of a trade
SlTouched(trade, b) ==
    IF trade.direction = "BUY" THEN b.low <= trade.sl_price
    ELSE b.high >= trade.sl_price

TargetTouched(trade, b) ==
    LET target == IF trade.direction = "BUY"
                  THEN trade.entry_price + (3 * Abs(trade.entry_price - trade.sl_price)) \div 2
                  ELSE trade.entry_price - (3 * Abs(trade.entry_price - trade.sl_price)) \div 2
    IN IF trade.direction = "BUY" THEN b.high >= target ELSE b.low <= target

\* one iteration of the replay loop on the popped event b
\* faulty variant of RollingWindow: the newest bars are dropped
RollingWindowKeepsOldest(window) ==
    LET all == [window EXCEPT !.last = @ + 1]
    IN IF WindowLen(all) > WINDOW_CAP
       THEN [all EXCEPT !.last = all.first + WINDOW_CAP - 1]
       ELSE all

\* rb_window_cache[pair].append(bar), then the slice [-300:] when the list
\* is longer than 300
RollingWindow(window) ==
    LET all == [window EXCEPT !.last = @ + 1]
    IN IF WindowLen(all) > WINDOW_CAP
       THEN [all EXCEPT !.first = all.last - WINDOW_CAP + 1]
       ELSE all

LoopBody(A0, st, lc0, win0, b, outcome, signal) ==
    LET pair == b.pair
        end_time == b.end_time
        win == [win0 EXCEPT ![pair] = RollingWindow(@)]
        lc == [p \in (DOMAIN lc0) \cup {pair} |-> IF p = pair THEN b.close ELSE lc0[p]]
        A1 == reset_daily_if_needed(A0, end_time)
        d == _compute_dcrd(st, pair, outcome)
        A2 == CheckExits(A1, OpenOnPair(A1, A1.open_trades, pair), b, end_time, d.score)
        cap_hit == is_daily_cap_hit(A2)
        near_close == _is_near_friday_close(end_time)
        watched == {i \in 1..Len(A1.trades) :
                      A1.trades[i].phase = "open" /\ A1.trades[i].pair = pair}
        base == [kind |-> "none",
                 flagged |-> /\ OpenOnPair(A1, A1.open_trades, pair) # <<>>
                             /\ (b.is_phantom \/ b.is_gap_adjacent),
                 sl_touch |-> {i \in watched : SlTouched(A1.trades[i], b)},
                 target_touch |-> {i \in watched : TargetTouched(A1.trades[i], b)},
                 before |-> [i \in 1..Len(A1.trades) |-> A1.trades[i].phase],
                 after_exits |-> A2.open_trades,
                 r_after_exits |-> A2.daily_r_used, opened |-> 0,
                 score |-> d.score]
    IN IF SkipEntry(cap_hit, near_close)
       THEN IF cap_hit
            THEN [acct |-> CloseAll(A2, A2.open_trades, lc, end_time, "2R_CAP"),
                  dcrd |-> d.state, lc |-> lc, win |-> win,
                  step |-> [base EXCEPT !.kind = "cap"]]
            ELSE [acct |-> CloseAll(A2, A2.open_trades, lc, end_time, "WEEKEND_CLOSE"),
                  dcrd |-> d.state, lc |-> lc, win |-> win,
                  step |-> [base EXCEPT !.kind = "weekend"]]
       ELSE IF WindowLen(win[pair]) < _MIN_BARS_FOR_DCRD
       THEN [acct |-> A2, dcrd |-> d.state, lc |-> lc, win |-> win,
             step |-> [base EXCEPT !.kind = "short_window"]]
       ELSE IF signal.present /\ ~signal.is_blocked /\ signal.lot_size > 0
       THEN [acct |-> _open_trade(A2, signal, pair, end_time),
             dcrd |-> d.state, lc |-> lc, win |-> win,
             step |-> [base EXCEPT !.kind = "entry", !.opened = Len(A2.trades) + 1]]
       ELSE [acct |-> A2, dcrd |-> d.state, lc |-> lc, win |-> win,
             step |-> [base EXCEPT !.kind = "no_entry"]]

(* src/performance_tracker.py *)

COOLDOWN_LOSSES_IN_WINDOW == 5
COOLDOWN_WINDOW == 10
COOLDOWN_HOURS == 24

\* _StrategyState(): an empty deque and no cooldown (-1 is None)
_StrategyState == [trades |-> <<>>, cooldown_until |-> -1]

\* PerformanceTracker._get
_get(states, strategy) ==
    IF strategy \in DOMAIN states THEN states[strategy] ELSE _StrategyState

\* deque(maxlen=COOLDOWN_WINDOW).append: the oldest record is dropped
deque_append(records, record) ==
    LET all == Append(records, record)
    IN IF Len(all) > COOLDOWN_WINDOW
       THEN SubSeq(all, Len(all) - COOLDOWN_WINDOW + 1, Len(all))
       ELSE all

\* faulty variant of consecutive_losses_from: a week-end closure at a loss
\* counts toward the run
RECURSIVE consecutive_losses_counts_weekend(_, _)
consecutive_losses_counts_weekend(records, i) ==
    IF i = 0 THEN 0
    ELSE IF records[i].r_result < 0
    THEN 1 + consecutive_losses_counts_weekend(records, i - 1)
    ELSE 0

\* the loop of consecutive_losses over reversed(self.trades), from the
\* record at position i down to the oldest
RECURSIVE consecutive_losses_from(_, _)
consecutive_losses_from(records, i) ==
    IF i = 0 THEN 0
    ELSE IF records[i].is_weekend_close
    THEN consecutive_losses_from(records, i - 1)
    ELSE IF records[i].r_result < 0
    THEN 1 + consecutive_losses_from(records, i - 1)
    ELSE 0

\* _StrategyState.consecutive_losses
consecutive_losses(state) == consecutive_losses_from(state.trades, Len(state.trades))

\* _StrategyState.is_in_cooldown(now)
is_in_cooldown(state, current_time) ==
    IF state.cooldown_until = -1 THEN FALSE
    ELSE current_time < state.cooldown_until

\* _StrategyState.trigger_cooldown(now)
trigger_cooldown(state, current_time) ==
    [state EXCEPT !.cooldown_until = current_time + COOLDOWN_HOURS * 60]

\* PerformanceTracker.add_trade, on the tracker's state
PerformanceTracker_add_trade(states, strategy, r_result, timestamp, is_weekend_close) ==
    LET state == _get(states, strategy)
        recorded == [state EXCEPT !.trades =
                        deque_append(@, [r_result |-> r_result,
                                         timestamp |-> timestamp,
                                         is_weekend_close |-> is_weekend_close])]
        after == IF /\ ~is_weekend_close
                    /\ r_result < 0
                    /\ consecutive_losses(recorded) >= COOLDOWN_LOSSES_IN_WINDOW
                 THEN trigger_cooldown(recorded, timestamp)
                 ELSE recorded
    IN [s \in (DOMAIN states) \cup {strategy} |->
           IF s = strategy THEN after ELSE states[s]]

\* PerformanceTracker.reset_cooldown
PerformanceTracker_reset_cooldown(states, strategy) ==
    LET state == _get(states, strategy)
    IN [s \in (DOMAIN states) \cup {strategy} |->
           IF s = strategy THEN [state EXCEPT !.cooldown_until = -1]
           ELSE states[s]]

\* the add_trade calls made between two values of the call record
NewCalls(tracker, later) == SubSeq(later, Len(tracker) + 1, Len(later))

\* the tracker's state after a sequence of add_trade calls
RECURSIVE StatesAfter(_, _)
StatesAfter(states, calls) ==
    IF calls = <<>> THEN states
    ELSE StatesAfter(
            PerformanceTracker_add_trade(states, Head(calls).strategy,
                                         Head(calls).r_result,
                                         Head(calls).timestamp,
                                         Head(calls).is_weekend_close),
            Tail(calls))

\* performance_tracker.add_trade(strategy, r_result, timestamp, is_weekend_close)
add_trade(tracker, strategy, r_result, timestamp, is_weekend_close) ==
    Append(tracker, [strategy |-> strategy, r_result |-> r_result,
                     timestamp |-> timestamp,
                     is_weekend_close |-> is_weekend_close])

\* for trade in account.closed_trades: if trade.trade_id in just_closed_ids
RECURSIVE ReportEach(_, _, _, _, _, _)
ReportEach(tracker, A, ids, just_closed_ids, timestamp, is_weekend) ==
    IF ids = <<>> THEN tracker
    ELSE ReportEach(IF Head(ids) \in just_closed_ids
                    THEN add_trade(tracker, A.trades[Head(ids)].strategy,
                                   A.trades[Head(ids)].r_multiple_total,
                                   timestamp, is_weekend)
                    ELSE tracker,
                    A, Tail(ids), just_closed_ids, timestamp, is_weekend)

\* _report_closed_trades, for the account A at the end of the bar and the
\* ids open when the call is made
_report_closed_trades(tracker, A, open_ids_before, current_open_ids, timestamp, is_weekend) ==
    ReportEach(tracker, A, A.closed_trades, open_ids_before \ current_open_ids,
               timestamp, is_weekend)

\* faulty variant of TrackerAfterBar: only the exits of the bar are reported
TrackerAfterBarExitsOnly(tracker, A, done, timestamp) ==
    _report_closed_trades(tracker, A,
        {i \in DOMAIN done.before : done.before[i] # "closed"},
        {done.after_exits[k] : k \in 1..Len(done.after_exits)},
        timestamp, FALSE)

\* the tracker after the loop body on a bar, which left the account A and
\* the step record done: the report that follows exit resolution, then the
\* report of the cap path or of the week-end path
TrackerAfterBar(tracker, A, done, timestamp) ==
    LET open_ids_before == {i \in DOMAIN done.before : done.before[i] # "closed"}
        open_ids_after == {done.after_exits[k] : k \in 1..Len(done.after_exits)}
        reported == _report_closed_trades(tracker, A, open_ids_before,
                                          open_ids_after, timestamp, FALSE)
    IN IF done.kind = "cap"
       THEN _report_closed_trades(reported, A, open_ids_after, {},
                                  timestamp, FALSE)
       ELSE IF done.kind = "weekend"
       THEN _report_closed_trades(reported, A, open_ids_after, {},
                                  timestamp, TRUE)
       ELSE reported

SetAccount(A) ==
    /\ trades' = A.trades
    /\ open_trades' = A.open_trades
    /\ closed_trades' = A.closed_trades
    /\ equity' = A.equity
    /\ daily_r_used' = A.daily_r_used
    /\ daily_trade_count' = A.daily_trade_count
    /\ last_reset_date' = A.last_reset_date
    /\ equity_history' = A.equity_history

(* Inputs of the replay *)

\* one bar time per day at 10:00, and 21:40 on Fridays
ReplayDays == {0, 1}
TimeSet == {d * 1440 + 600 : d \in ReplayDays}
           \cup {d * 1440 + 1300 : d \in {x \in ReplayDays : weekday(x * 1440) = 4}}
\* run(end=...): 23:59 of the last day
END_TIME == 2879

\* the bars fed, the same for every pair: low, high, close, flag and the
\* price of the tick that completed the bar
BarShapes ==
    { <<108500, 112000, 110000, "none", 110000>>,
      <<109000, 110000, 110000, "none", 110000>>,
      <<110000, 111500, 110000, "none", 110000>>,
      <<110000, 110300, 110000, "none", 110000>>,
      <<108500, 110000, 110000, "phantom", 108000>>,
      <<110000, 111500, 110000, "gap_adjacent", 111800>> }

Bar(pair, end_time, shape) ==
    [pair |-> pair, end_time |-> end_time, low |-> shape[1], high |-> shape[2],
     close |-> shape[3], is_phantom |-> shape[4] = "phantom",
     is_gap_adjacent |-> shape[4] = "gap_adjacent",
     tick_boundary_price |-> shape[5]]

\* EURUSD has higher-timeframe data and is scored on every bar, with a raw
\* composite of EngineScores; USDJPY has none and gets the fallback
ScoredPairs == {"EURUSD"}
EngineScores == {45, 89}
Fallback == [scored |-> FALSE, raw |-> 0]
Outcomes(pair) ==
    IF pair \in ScoredPairs
    THEN {[scored |-> TRUE, raw |-> x] : x \in EngineScores}
    ELSE {Fallback}

NoSignal == [present |-> FALSE, is_blocked |-> FALSE, lot_size |-> 0,
             direction |-> None, entry |-> 0, sl |-> 0, strategy |-> None,
             composite_score |-> 0, partial_exit_pct |-> 0]

RISK_DISTANCE == 1000
ENTRY == 110000

\* a proposal of BrainCore.process for the current composite score
Proposal(direction, composite_score, blocked, lot_size) ==
    [present |-> TRUE, is_blocked |-> blocked, lot_size |-> lot_size,
     direction |-> direction,
     entry |-> IF direction = "BUY" THEN ENTRY - SLIPPAGE_PIPS * PIP_SIZE
               ELSE ENTRY + SLIPPAGE_PIPS * PIP_SIZE,
     sl |-> IF direction = "BUY" THEN ENTRY - RISK_DISTANCE ELSE ENTRY + RISK_DISTANCE,
     strategy |-> "TrendRider",
     composite_score |-> composite_score,
     partial_exit_pct |-> get_partial_exit_pct(composite_score)]

\* the strategy buys EURUSD and sells USDJPY; a proposal may come back
\* blocked by a gate or sized to zero lots
Side(pair) == IF pair = "EURUSD" THEN "BUY" ELSE "SELL"
Signals(pair, composite_score) ==
    {NoSignal, Proposal(Side(pair), composite_score, TRUE, 1),
     Proposal(Side(pair), composite_score, FALSE, 0),
     Proposal(Side(pair), composite_score, FALSE, 1)}

(* The state after the warm-up: WINDOW_CAP bars of each pair have been     *)
(* replayed, all at 10:00 of day 0 with the neutral fallback score and     *)
(* closing at 110000, and the strategy proposed no trade on any of them.   *)
WarmBars == [p \in Pairs |-> [first |-> 1, last |-> WINDOW_CAP]]
WarmCount == WarmBars["EURUSD"].last + WarmBars["USDJPY"].last

InitRun ==
    /\ InitDcrd
    /\ trades = <<>>
    /\ open_trades = <<>>
    /\ closed_trades = <<>>
    /\ equity = INITIAL_EQUITY
    /\ daily_r_used = 0
    /\ daily_trade_count = 0
    /\ last_reset_date = 0
    /\ equity_history = <<>>
    /\ last_close = [p \in Pairs |-> 110000]
    /\ rb_window_cache = WarmBars
    /\ bar_count = WarmCount
    /\ now = 600
    /\ step = [NoStep EXCEPT !.kind = "no_entry"]
    /\ InitQueue
    /\ InitBrain
    /\ InitCycle
    /\ InitExit /\ InitFeed

Running == step.kind # "end"

\* while heap: pop the next event and run the loop body on it
ProcessBar(b, outcome, signal) ==
    /\ Running
    /\ bar_count < WarmCount + MaxBars
    /\ b.end_time >= now
    /\ signal.present /\ ~signal.is_blocked /\ signal.lot_size > 0
         => Len(trades) < MaxTrades
    /\ LET r == LoopBody(Acct, dcrd_state, last_close, rb_window_cache, b,
                         outcome, signal)
       IN /\ SetAccount(r.acct)
          /\ dcrd_state' = r.dcrd
          /\ last_close' = r.lc
          /\ rb_window_cache' = r.win
          /\ step' = r.step
          /\ performance_tracker' = TrackerAfterBar(performance_tracker, Acct', step',
                                                    b.end_time)
          /\ _states' = StatesAfter(_states, NewCalls(performance_tracker,
                                                      performance_tracker'))
    /\ now' = b.end_time
    /\ bar_count' = bar_count + 1
    /\ UNCHANGED <<ret, call, hist, queueVars, exitVars, feedVars, cycleVars>>

\* the heap is empty: close what is still open at the pair's last price
EndOfRun ==
    /\ Running
    /\ SetAccount(CloseAll(Acct, open_trades, last_close, END_TIME, "WEEKEND_CLOSE"))
    /\ step' = [NoStep EXCEPT !.kind = "end",
                              !.before = [i \in 1..Len(trades) |-> trades[i].phase],
                              !.after_exits = open_trades,
                              !.r_after_exits = daily_r_used,
                              !.score = step.score]
    /\ UNCHANGED <<dcrdVars, last_close, rb_window_cache, bar_count, now,
                   queueVars, exitVars, feedVars, brainVars, cycleVars>>

NextRun ==
    \/ \E pair \in Pairs, end_time \in TimeSet, shape \in BarShapes :
          \E outcome \in Outcomes(pair) :
             \E signal \in Signals(pair,
                   _compute_dcrd(dcrd_state, pair, outcome).score) :
                ProcessBar(Bar(pair, end_time, shape), outcome, signal)
    \/ EndOfRun

SpecRun == InitRun /\ [][NextRun]_vars

\* the last step processed a bar
BarStep == step.kind \in {"cap", "weekend", "short_window", "entry", "no_entry"}
CapInR == DAILY_LOSS_CAP_R * 1000000
\* the sum of pnl_usd, and of commission_usd, over the trades of a set of ids
RECURSIVE SumPnl(_)
SumPnl(ids) ==
    IF ids = {} THEN 0
    ELSE LET i == CHOOSE x \in ids : TRUE
         IN trades[i].pnl_usd + SumPnl(ids \ {i})
RECURSIVE SumCommission(_)
SumCommission(ids) ==
    IF ids = {} THEN 0
    ELSE LET i == CHOOSE x \in ids : TRUE
         IN trades[i].commission_usd + SumCommission(ids \ {i})
SlipPrice == SLIPPAGE_PIPS * PIP_SIZE

(* C1: a trade in phase open whose stop and 1.5R target are both touched   *)
(* by a bar of its pair is closed by that bar with reason SL_HIT and takes *)
(* no partial exit.                                                        *)
C1_StopWinsOverTarget ==
    \A i \in step.sl_touch \cap step.target_touch :
        /\ trades[i].phase = "closed"
        /\ trades[i].close_reason = "SL_HIT"
        /\ trades[i].close_time = now
        /\ trades[i].partial_exit_time = -1
        /\ trades[i].r_multiple_partial = 0

C1_Witness ==
    \E i \in step.sl_touch \cap step.target_touch :
        /\ trades[i].direction = "SELL"
        /\ trades[i].close_reason = "SL_HIT"
        /\ ~step.flagged

(* C2: in every step each trade's phase only moves forward along open ->   *)
(* runner -> closed or open -> closed: a runner stays runner or closes, a  *)
(* closed trade is never touched again, a new trade starts open, and a     *)
(* trade enters closed_trades once.                                        *)
C2_PhaseForward ==
    [][/\ Len(trades') >= Len(trades)
       /\ \A i \in 1..Len(trades) :
            /\ trades[i].phase = "runner" => trades'[i].phase \in {"runner", "closed"}
            /\ trades[i].phase = "closed" => trades'[i] = trades[i]
       /\ \A i \in (Len(trades) + 1)..Len(trades') : trades'[i].phase = "open"
       /\ Len(closed_trades') >= Len(closed_trades)
       /\ SubSeq(closed_trades', 1, Len(closed_trades)) = closed_trades
       /\ \A j, k \in 1..Len(closed_trades') :
            closed_trades'[j] = closed_trades'[k] => j = k
       /\ \A i \in 1..Len(trades') :
            trades'[i].phase = "closed"
              <=> \E j \in 1..Len(closed_trades') : closed_trades'[j] = i
      ]_vars

C2_Witness ==
    \E i \in 1..Len(trades) :
        /\ trades[i].phase = "closed"
        /\ trades[i].partial_exit_time # -1
        /\ trades[i].close_reason = "CHANDELIER_HIT"
        /\ step.kind = "entry"

(* C12: once a trade is opened, no step of the run (exit resolution with  *)
(* partial exit, trailing-stop update or close, forced liquidation, daily  *)
(* reset, entry of another trade, end of the run) changes its              *)
(* partial_exit_pct, its composite score at entry, its entry price, its    *)
(* stop price or its size, whatever score the later bars are given.        *)
C12_EntryFieldsFrozen ==
    [][/\ Len(trades') >= Len(trades)
       /\ \A i \in 1..Len(trades) :
            /\ trades'[i].partial_exit_pct = trades[i].partial_exit_pct
            /\ trades'[i].composite_score = trades[i].composite_score
            /\ trades'[i].entry_price = trades[i].entry_price
            /\ trades'[i].sl_price = trades[i].sl_price
            /\ trades'[i].lot_size = trades[i].lot_size
            /\ trades'[i].initial_r_pips = trades[i].initial_r_pips]_vars

\* a trade that went through partial exit, trailing and close, after which a
\* bar is given a score whose fraction differs from the trade's
C12_Witness ==
    \E i \in 1..Len(trades) :
        /\ trades[i].phase = "closed"
        /\ trades[i].partial_exit_time # -1
        /\ trades[i].chandelier_sl # initial_chandelier_sl(trades[i].entry_price,
               trades[i].sl_price, trades[i].direction,
               trades[i].atr14_at_partial, trades[i].pair)
        /\ BarStep
        /\ step.score # trades[i].composite_score
        /\ get_partial_exit_pct(step.score) # trades[i].partial_exit_pct
        /\ trades[i].partial_exit_pct = get_partial_exit_pct(trades[i].composite_score)

\* the add_trade call that reports the closed trade t
ReportOf(t) ==
    [strategy |-> t.strategy, r_result |-> t.r_multiple_total,
     timestamp |-> t.close_time,
     is_weekend_close |-> t.close_reason = "WEEKEND_CLOSE"]

\* the trades closed when the event stream was exhausted
ClosedAtEnd == {i \in 1..Len(trades) :
                  trades[i].phase = "closed" /\ trades[i].close_time = END_TIME}

InWeekendWindow(ts) ==
    /\ weekday(ts) = 4
    /\ 22 * 60 - WEEKEND_CLOSE_MINUTES <= ts % 1440
    /\ ts % 1440 <= 22 * 60

\* the trades the bar processed last closed for the week-end
ClosedForWeekendOnBar ==
    {i \in DOMAIN step.before :
        /\ step.before[i] # "closed"
        /\ trades[i].phase = "closed"
        /\ trades[i].close_reason = "WEEKEND_CLOSE"}

(* C23: once a bar whose end_time lies in the week-end window is           *)
(* processed, no trade is open on any pair and none was opened on that     *)
(* bar; a bar outside the window closes no trade for the week-end          *)
C23_WeekendLiquidation ==
    Running =>
        IF InWeekendWindow(now)
        THEN /\ open_trades = <<>>
             /\ step.opened = 0
             /\ \A i \in 1..Len(trades) : trades[i].phase = "closed"
        ELSE ClosedForWeekendOnBar = {}

\* a bar at 21:40 on Friday closed a trade of the other pair for the
\* week-end
C23_Witness ==
    /\ Running
    /\ InWeekendWindow(now)
    /\ step.kind = "weekend"
    /\ ClosedForWeekendOnBar # {}
    /\ Len(step.after_exits) > 0

\* the trades whose phase the bar processed last changed: those it closed
\* and those whose partial exit it took
ExitsOnBar == {i \in DOMAIN step.before : trades[i].phase # step.before[i]}

(* C26, as stated: a bar on which exit resolution closed or partially      *)
(* exited a trade opens no trade                                           *)
C26_NoEntryOnExitBar == step.kind = "entry" => ExitsOnBar = {}

(* C26, amended: a bar opens no trade when, after its exit resolution, the *)
(* daily loss cap is hit or the bar lies in the week-end window, and those *)
(* are the bars that end in a forced liquidation; a bar that opens a trade *)
(* may have closed or partially exited trades, but none of them for the    *)
(* cap or the week-end                                                     *)
C26_NoEntryOnLiquidationBar ==
    Running =>
        /\ step.kind \in {"cap", "weekend"}
             <=> (step.r_after_exits >= CapInR \/ InWeekendWindow(now))
        /\ step.kind \in {"cap", "weekend"} => step.opened = 0
        /\ step.kind = "entry"
             => \A i \in ExitsOnBar :
                   trades[i].close_reason \notin {"2R_CAP", "WEEKEND_CLOSE"}

\* a bar stopped out a trade of its pair and opened the next one
C26_Witness ==
    /\ step.kind = "entry"
    /\ trades[step.opened].entry_time = now
    /\ \E i \in ExitsOnBar :
         /\ trades[i].close_reason = "SL_HIT"
         /\ trades[i].close_time = now
         /\ trades[i].pair = trades[step.opened].pair

(* C8: when daily_r_used has reached DAILY_LOSS_CAP_R after the exit       *)
(* resolution of a bar, every trade still open then is closed with reason  *)
(* 2R_CAP at that bar's time and the bar opens no trade; and a trade is    *)
(* opened while daily_r_used is at the cap only by a bar of a later date,  *)
(* whose daily reset zeroed the counter.                                   *)
C8_DailyCap ==
    [][/\ (BarStep' /\ step'.r_after_exits >= CapInR)
            => /\ open_trades' = <<>>
               /\ step'.opened = 0
               /\ Len(trades') = Len(trades)
               /\ \A k \in 1..Len(step'.after_exits) :
                    LET t == trades'[step'.after_exits[k]]
                    IN /\ t.phase = "closed"
                       /\ t.close_reason = "2R_CAP"
                       /\ t.close_time = now'
       /\ (daily_r_used >= CapInR /\ Len(trades') > Len(trades))
            => /\ date(now') > last_reset_date
               /\ last_reset_date' = date(now')
               /\ step'.r_after_exits = 0
       /\ daily_r_used' >= CapInR => open_trades' = <<>>
      ]_vars

C8_Witness ==
    /\ step.kind = "cap"
    /\ Len(step.after_exits) >= 1
    /\ \A k \in 1..Len(step.after_exits) :
         trades[step.after_exits[k]].close_reason = "2R_CAP"
    /\ daily_r_used >= CapInR

(* C9: equity is the initial equity plus the pnl_usd of the closed trades  *)
(* minus the commission of the trades still open or runner; nothing of an  *)
(* open or runner trade's price movement, partial leg included, is in it.  *)
C9_EquityIsRealized ==
    LET closed == {i \in 1..Len(trades) : trades[i].phase = "closed"}
        live == {i \in 1..Len(trades) : trades[i].phase # "closed"}
    IN equity = INITIAL_EQUITY + SumPnl(closed) - SumCommission(live)

C9_Witness ==
    /\ \E i \in 1..Len(trades) :
         trades[i].phase = "runner" /\ trades[i].r_multiple_partial > 0
    /\ \E i \in 1..Len(trades) :
         trades[i].phase = "closed" /\ trades[i].pnl_usd # 0

-----------------------------------------------------------------------------
(* The ledger on its own: BacktestAccount driven call by call, as the      *)
(* engine and the unit tests drive it, with the ATR and the bar extreme of *)
(* each call drawn from AtrSet and ExtremeSet                              *)

AtrSet == {50, 150, 800}
ExtremeSet == {107500, 108500, 110000, 111500, 112500}

\* account.open_trade(trade) for a new trade of the pair
OpenTradeCall(pair) ==
    /\ Len(trades) < MaxTrades
    /\ SetAccount(_open_trade(Acct, Proposal(Side(pair), _DCRD_FALLBACK_SCORE,
                                             FALSE, 1), pair, now))
    /\ UNCHANGED <<dcrdVars, loopVars, queueVars, exitVars, feedVars, brainVars, cycleVars>>

\* account.apply_partial_exit(trade, target, ts, atr14) for a trade in phase open
PartialExitCall(id, atr14) ==
    /\ id \in 1..Len(trades)
    /\ trades[id].phase = "open"
    /\ SetAccount(apply_partial_exit(Acct, id,
                     calculate_1_5r_price(trades[id].entry_price,
                                          trades[id].sl_price,
                                          trades[id].direction),
                     now, atr14))
    /\ UNCHANGED <<dcrdVars, loopVars, queueVars, exitVars, feedVars, brainVars, cycleVars>>

\* account.update_chandelier_for_trade(trade, bar_extreme, atr14)
ChandelierCall(id, bar_extreme, atr14) ==
    /\ id \in 1..Len(trades)
    /\ trades[id].phase # "closed"
    /\ SetAccount(update_chandelier_for_trade(Acct, id, bar_extreme, atr14))
    /\ UNCHANGED <<dcrdVars, loopVars, queueVars, exitVars, feedVars, brainVars, cycleVars>>

\* account.close_trade(trade, price, ts, reason) at the stop in force
CloseTradeCall(id) ==
    /\ id \in 1..Len(trades)
    /\ trades[id].phase # "closed"
    /\ SetAccount(IF trades[id].phase = "open"
                  THEN close_trade(Acct, id, trades[id].sl_price, now, "SL_HIT")
                  ELSE close_trade(Acct, id, trades[id].chandelier_sl, now,
                                   "CHANDELIER_HIT"))
    /\ UNCHANGED <<dcrdVars, loopVars, queueVars, exitVars, feedVars, brainVars, cycleVars>>

NextLedger ==
    \/ \E pair \in Pairs : OpenTradeCall(pair)
    \/ \E id \in 1..MaxTrades, atr14 \in AtrSet : PartialExitCall(id, atr14)
    \/ \E id \in 1..MaxTrades, bar_extreme \in ExtremeSet, atr14 \in AtrSet :
          ChandelierCall(id, bar_extreme, atr14)
    \/ \E id \in 1..MaxTrades : CloseTradeCall(id)

SpecLedger == Init /\ [][NextLedger]_vars

\* the ids a list of the account holds
Listed(list) == {list[k] : k \in 1..Len(list)}

\* no id is in the list twice
NoRepeat(list) == \A j, k \in 1..Len(list) : list[j] = list[k] => j = k

(* C29: after every call on the account, open_trades lists exactly the     *)
(* trades in phase open or runner and closed_trades exactly the trades in  *)
(* phase closed, each once and none in both, and the call left the         *)
(* entries closed_trades had in place, adding new ones at its end          *)
C29_TradeLists ==
    [][/\ Listed(open_trades')
            = {i \in 1..Len(trades') : trades'[i].phase \in {"open", "runner"}}
       /\ Listed(closed_trades')
            = {i \in 1..Len(trades') : trades'[i].phase = "closed"}
       /\ NoRepeat(open_trades')
       /\ NoRepeat(closed_trades')
       /\ Listed(open_trades') \cap Listed(closed_trades') = {}
       /\ Len(closed_trades') >= Len(closed_trades)
       /\ \A k \in 1..Len(closed_trades) : closed_trades'[k] = closed_trades[k]
      ]_vars

\* one trade closed after its partial exit, the other still a runner
C29_Witness ==
    /\ Len(closed_trades) = 1
    /\ trades[closed_trades[1]].partial_exit_time # -1
    /\ Len(open_trades) = 1
    /\ trades[open_trades[1]].phase = "runner"

(* C3: from the partial exit on, whatever bar extremes and ATR values are  *)
(* fed, the chandelier_sl of a runner never decreases for a BUY and never  *)
(* increases for a SELL.                                                   *)
C3_ChandelierMonotone ==
    [][\A i \in 1..Len(trades) :
         trades[i].phase = "runner" =>
           /\ trades'[i].phase \in {"runner", "closed"}
           /\ trades[i].direction = "BUY"
                => trades'[i].chandelier_sl >= trades[i].chandelier_sl
           /\ trades[i].direction = "SELL"
                => trades'[i].chandelier_sl <= trades[i].chandelier_sl
      ]_vars

C3_Witness ==
    /\ \E i \in 1..Len(trades) :
         /\ trades[i].phase = "runner"
         /\ trades[i].direction = "BUY"
         /\ trades[i].chandelier_sl
              > initial_chandelier_sl(trades[i].entry_price, trades[i].sl_price,
                                      "BUY", trades[i].atr14_at_partial,
                                      trades[i].pair)
    /\ \E i \in 1..Len(trades) :
         /\ trades[i].phase = "runner"
         /\ trades[i].direction = "SELL"
         /\ trades[i].chandelier_sl
              < initial_chandelier_sl(trades[i].entry_price, trades[i].sl_price,
                                      "SELL", trades[i].atr14_at_partial,
                                      trades[i].pair)

-----------------------------------------------------------------------------
(* Two-leg trades: the account driven as tests/test_backtester.py drives   *)
(* it, with the score at entry and the exit prices passed to               *)
(* apply_partial_exit and close_trade drawn from small sets                *)

MaxLegTrades == 1
LegScores == {20, 50, 75, 89}
LEG_LOT == 10

\* the prices passed to apply_partial_exit: the 1.5R target, the price one
\* slippage beyond it so that the fill is the target itself, and 1R
PartialPrices(direction) ==
    IF direction = "BUY" THEN {111000, 111500, 111510}
    ELSE {109000, 108500, 108490}

\* the prices passed to close_trade: 1R and 2.5R in profit, one slippage
\* beyond 2.5R, and 5R in loss, as a forced liquidation after a gap gives
RunnerPrices(direction) ==
    IF direction = "BUY" THEN {111000, 112500, 112510, 105000}
    ELSE {109000, 107500, 107490, 115000}

\* account.open_trade(_trade(...)) with the fraction of the score at entry
LegOpen(pair, composite_score) ==
    /\ Len(trades) < MaxLegTrades
    /\ SetAccount(open_trade(Acct,
          BacktestTrade(Len(trades) + 1, pair, Side(pair), "TrendRider", ENTRY,
                        IF Side(pair) = "BUY" THEN ENTRY - RISK_DISTANCE
                        ELSE ENTRY + RISK_DISTANCE,
                        now, LEG_LOT, composite_score,
                        get_partial_exit_pct(composite_score))))
    /\ UNCHANGED <<dcrdVars, loopVars, queueVars, exitVars, feedVars, brainVars, cycleVars>>

\* account.apply_partial_exit(trade, exit_price, ts, atr14)
LegPartial(id, exit_price) ==
    /\ id \in 1..Len(trades)
    /\ trades[id].phase = "open"
    /\ exit_price \in PartialPrices(trades[id].direction)
    /\ SetAccount(apply_partial_exit(Acct, id, exit_price, now,
                                     _estimate_atr(trades[id].pair)))
    /\ UNCHANGED <<dcrdVars, loopVars, queueVars, exitVars, feedVars, brainVars, cycleVars>>

\* account.close_trade(trade, exit_price, ts, reason)
LegClose(id, exit_price) ==
    /\ id \in 1..Len(trades)
    /\ trades[id].phase # "closed"
    /\ exit_price \in RunnerPrices(trades[id].direction)
    /\ SetAccount(close_trade(Acct, id, exit_price, now,
                              IF trades[id].phase = "open" THEN "SL_HIT"
                              ELSE "CHANDELIER_HIT"))
    /\ UNCHANGED <<dcrdVars, loopVars, queueVars, exitVars, feedVars, brainVars, cycleVars>>

LegPriceSet == PartialPrices("BUY") \cup PartialPrices("SELL")
               \cup RunnerPrices("BUY") \cup RunnerPrices("SELL")

NextLegs ==
    \/ \E pair \in Pairs, composite_score \in LegScores : LegOpen(pair, composite_score)
    \/ \E id \in 1..MaxLegTrades, exit_price \in LegPriceSet : LegPartial(id, exit_price)
    \/ \E id \in 1..MaxLegTrades, exit_price \in LegPriceSet : LegClose(id, exit_price)

SpecLegs == Init /\ [][NextLegs]_vars

\* the closed trades that took a partial exit
TwoLeg == {i \in 1..Len(trades) :
             trades[i].phase = "closed" /\ trades[i].partial_exit_time # -1}

(* C11, as stated: a long with entry 1.1000, stop 1.0900 and fraction 0.70 *)
(* whose partial exit is made at 1.1150 and whose runner is closed at      *)
(* 1.1250 ends with total R = 0.70 x 1.5 + 0.30 x 2.5 = 1.80.              *)
C11_ScenarioAtRequestedPrices ==
    \A i \in TwoLeg :
        (/\ trades[i].direction = "BUY"
         /\ trades[i].entry_price = 110000
         /\ trades[i].sl_price = 109000
         /\ trades[i].partial_exit_pct = 70
         /\ trades[i].partial_exit_price = apply_exit_slippage(111500, "BUY", trades[i].pair)
         /\ trades[i].close_price = apply_exit_slippage(112500, "BUY", trades[i].pair))
        => trades[i].r_multiple_total = 70 * 150 + 30 * 250

(* C11, amended: closing a trade that had a partial exit sets total R to   *)
(* partial_exit_pct times the R of the partial leg plus (1 -               *)
(* partial_exit_pct) times the R of the runner leg, both legs measured at  *)
(* their fills, which are the requested prices worsened by the exit        *)
(* slippage; the long of the scenario, exited at 1.1150 and 1.1250, is     *)
(* filled at 1.1149 and 1.1249 and ends with 0.70 x 1.49 + 0.30 x 2.49.    *)
C11_TotalRIsWeightedSum ==
    \A i \in TwoLeg :
        LET t == trades[i]
        IN /\ t.r_multiple_partial
               = calculate_r_multiple(t.entry_price, t.partial_exit_price,
                                      t.sl_price, t.direction)
           /\ t.r_multiple_runner
               = calculate_r_multiple(t.entry_price, t.close_price,
                                      t.sl_price, t.direction)
           /\ t.r_multiple_total
               = t.partial_exit_pct * t.r_multiple_partial
                 + (100 - t.partial_exit_pct) * t.r_multiple_runner
           /\ (t.direction = "BUY" /\ t.partial_exit_pct = 70
               /\ t.partial_exit_price = 111490 /\ t.close_price = 112490)
              => t.r_multiple_total = 70 * 149 + 30 * 249

C11_Witness ==
    \E i \in TwoLeg :
        /\ trades[i].direction = "BUY"
        /\ trades[i].composite_score = 75
        /\ trades[i].partial_exit_pct = 70
        /\ trades[i].partial_exit_price = 111490
        /\ trades[i].close_price = 112490
        /\ trades[i].r_multiple_total = 17900

(* C30: a partial exit moves the trade from open to runner, records the    *)
(* fill price and time, sets the partial leg's R-multiple from that fill   *)
(* and the trailing stop from the initial formula, changes nothing else of *)
(* the trade, and leaves equity, the equity history, daily_r_used,         *)
(* daily_trade_count, open_trades and closed_trades as they were; the      *)
(* partial leg's R stays frozen while the trade is a runner, the equity    *)
(* changes only in a step that opens or closes a trade, and the close of   *)
(* the runner adds the trade's PnL to it                                   *)
C30_PartialExitFrame ==
    [][/\ \A i \in 1..Len(trades) :
         /\ (trades[i].phase = "open" /\ trades'[i].phase = "runner") =>
               /\ trades'[i].partial_exit_time = now
               /\ trades'[i].partial_exit_price > 0
               /\ trades'[i].r_multiple_partial
                    = calculate_r_multiple(trades[i].entry_price,
                                           trades'[i].partial_exit_price,
                                           trades[i].sl_price, trades[i].direction)
               /\ trades'[i].chandelier_sl
                    = initial_chandelier_sl(trades[i].entry_price, trades[i].sl_price,
                                            trades[i].direction,
                                            trades'[i].atr14_at_partial, trades[i].pair)
               /\ trades'[i] = [trades[i] EXCEPT
                                  !.phase = "runner",
                                  !.partial_exit_time = trades'[i].partial_exit_time,
                                  !.partial_exit_price = trades'[i].partial_exit_price,
                                  !.r_multiple_partial = trades'[i].r_multiple_partial,
                                  !.atr14_at_partial = trades'[i].atr14_at_partial,
                                  !.chandelier_sl = trades'[i].chandelier_sl]
               /\ UNCHANGED <<equity, equity_history, daily_r_used,
                              daily_trade_count, open_trades, closed_trades>>
         /\ trades[i].phase = "runner" =>
               /\ trades'[i].r_multiple_partial = trades[i].r_multiple_partial
               /\ trades'[i].partial_exit_price = trades[i].partial_exit_price
               /\ trades'[i].phase = "closed" =>
                     equity' = equity + trades'[i].pnl_usd + trades'[i].commission_usd
       /\ (/\ Len(trades') = Len(trades)
           /\ \A i \in 1..Len(trades) :
                trades'[i].phase = "closed" <=> trades[i].phase = "closed")
            => equity' = equity
      ]_vars

\* a runner whose partial exit filled at 1.49R, the equity still the
\* initial equity less the commission
C30_Witness ==
    \E i \in 1..Len(trades) :
        /\ trades[i].phase = "runner"
        /\ trades[i].direction = "BUY"
        /\ trades[i].partial_exit_price = 111490
        /\ trades[i].r_multiple_partial = 149
        /\ open_trades = <<i>>
        /\ closed_trades = <<>>
        /\ equity = INITIAL_EQUITY - trades[i].commission_usd
        /\ Len(equity_history) = 1

\* what the close of the trade c adds to daily_r_used when the loss is
\* weighted by the runner leg's fraction, in 1/1000000 R
LossByRunnerFraction(c) ==
    IF c.r_multiple_total >= 0 THEN 0
    ELSE IF c.partial_exit_time # -1
    THEN Abs(c.r_multiple_total) * (100 - c.partial_exit_pct)
    ELSE Abs(c.r_multiple_total) * 100

(* C31: the close of a trade adds to daily_r_used nothing when its total R *)
(* is not negative, |total R| when it is negative and the trade had no     *)
(* partial exit, and |total R| times the runner leg's fraction when it is  *)
(* negative and the trade had a partial exit                               *)
C31_LossWeightedByRunnerFraction ==
    [][\A i \in 1..Len(trades) :
         (trades[i].phase # "closed" /\ trades'[i].phase = "closed")
            => daily_r_used' = daily_r_used + LossByRunnerFraction(trades'[i])
      ]_vars

-----------------------------------------------------------------------------
(* Exit checks: _check_exits_on_bar called bar after bar on one trade, the  *)
(* account holding that trade from the start                                *)

MaxExitBars == 2     \* bars checked against the trade

\* the scores frozen at entry, and the scores passed with the bars: 41 and
\* 40 points below the entry score 75, and above both entry scores
ExitEntryScores == {20, 75}
ExitCurrentScores == {34, 35, 89}

\* the bars passed to _check_exits_on_bar: those of BarShapes and, for each
\* side, a bar that stays clear of the trailing stop of a new runner
ExitShapes ==
    BarShapes \cup { <<111200, 111400, 111300, "none", 111300>>,
                     <<108600, 108800, 108700, "none", 108700>>,
                     <<111600, 112200, 112100, "none", 112100>>,
                     <<107800, 108400, 107900, "none", 107900>> }

\* BacktestAccount(): a new account
NewAccount ==
    [trades |-> <<>>, open_trades |-> <<>>, closed_trades |-> <<>>,
     equity |-> INITIAL_EQUITY, daily_r_used |-> 0, daily_trade_count |-> 0,
     last_reset_date |-> -1, equity_history |-> <<>>]

IsAccount(A) ==
    /\ trades = A.trades
    /\ open_trades = A.open_trades
    /\ closed_trades = A.closed_trades
    /\ equity = A.equity
    /\ daily_r_used = A.daily_r_used
    /\ daily_trade_count = A.daily_trade_count
    /\ last_reset_date = A.last_reset_date
    /\ equity_history = A.equity_history

\* reset_daily_if_needed not called yet
NoReset == [current_time |-> -1, returned |-> FALSE]

\* the account after open_trade of one trade, nothing checked yet
InitExits ==
    /\ \E pair \in Pairs, composite_score \in ExitEntryScores :
         IsAccount(open_trade(NewAccount,
             BacktestTrade(1, pair, Side(pair), "TrendRider", ENTRY,
                           IF Side(pair) = "BUY" THEN ENTRY - RISK_DISTANCE
                           ELSE ENTRY + RISK_DISTANCE,
                           0, LEG_LOT, composite_score,
                           get_partial_exit_pct(composite_score))))
    /\ dcrd_state = <<>>
    /\ ret = NoReset
    /\ call = NoCall
    /\ hist = [p \in Pairs |-> <<>>]
    /\ InitLoop /\ InitQueue /\ InitBrain /\ InitCycle /\ InitExit /\ InitFeed

\* self._check_exits_on_bar(trade, bar, end_time, composite_score) on the
\* next bar of the trade's pair
ExitBar(id, shape, current_composite_score) ==
    /\ bar_count < MaxExitBars
    /\ id \in 1..Len(trades)
    /\ trades[id].phase # "closed"
    /\ \E b \in {Bar(trades[id].pair, now + 60, shape)} :
         /\ SetAccount(_check_exits_on_bar(Acct, id, b, b.end_time,
                                           current_composite_score))
         /\ checked' = [id |-> id, bar |-> b,
                        current_composite_score |-> current_composite_score,
                        trade |-> trades[id]]
    /\ bar_count' = bar_count + 1
    /\ now' = now + 60
    /\ UNCHANGED <<dcrdVars, last_close, rb_window_cache, step, queueVars,
                   brainVars, cycleVars, feedVars>>

\* the timestamps passed to reset_daily_if_needed: 09:00 and 15:00 of day 0,
\* 00:01 of day 1
ResetTimes == {540, 900, 1441}

\* reset = account.reset_daily_if_needed(current_time); the account it
\* leaves is A, and it returns whether it changed _last_reset_date
DailyResetCall(current_time) ==
    /\ \E A \in {reset_daily_if_needed(Acct, current_time)} :
         /\ SetAccount(A)
         /\ ret' = [current_time |-> current_time,
                    returned |-> A.last_reset_date # last_reset_date]
    /\ UNCHANGED <<dcrd_state, call, hist, loopVars, queueVars, exitVars, feedVars,
                   brainVars, cycleVars>>

NextExits ==
    \/ \E shape \in ExitShapes, cs \in ExitCurrentScores : ExitBar(1, shape, cs)
    \/ \E current_time \in ResetTimes : DailyResetCall(current_time)

SpecExits == InitExits /\ [][NextExits]_vars

\* the bar of the last _check_exits_on_bar call reaches the trailing stop
\* the trade had before the call
CheckedBarHitsTrailingStop ==
    IF checked.trade.direction = "BUY"
    THEN checked.bar.low <= checked.trade.chandelier_sl
    ELSE checked.bar.high >= checked.trade.chandelier_sl

\* by how many points the score passed to the last call is below the score
\* frozen at entry
CheckedDrop == checked.trade.composite_score - checked.current_composite_score

(* C21: a trade is closed with reason REGIME_DETERIORATION by the exit     *)
(* check of a bar exactly when it was a runner and the current composite   *)
(* score is more than REGIME_DETERIORATION_THRESHOLD points below the      *)
(* score frozen at entry; a drop equal to the threshold, a smaller drop or *)
(* a rise does not close it, a trade in phase open is never closed for     *)
(* this reason, and the close wins over the trailing stop of that bar      *)
C21_RegimeDeteriorationClose ==
    checked.id # 0 =>
        (trades[checked.id].close_reason = "REGIME_DETERIORATION"
           <=> (/\ checked.trade.phase = "runner"
                /\ CheckedDrop > REGIME_DETERIORATION_THRESHOLD))

\* a runner whose score fell by 41 points is closed for the deterioration
\* on a bar that reaches its trailing stop as well
C21_Witness ==
    /\ checked.id # 0
    /\ checked.trade.phase = "runner"
    /\ CheckedDrop = REGIME_DETERIORATION_THRESHOLD + 1
    /\ CheckedBarHitsTrailingStop
    /\ trades[checked.id].close_reason = "REGIME_DETERIORATION"
    /\ trades[checked.id].close_time = now

\* a runner whose score fell by exactly the threshold stays open on a bar
\* that does not reach its trailing stop
C21_AtThresholdStaysOpen ==
    /\ checked.id # 0
    /\ checked.trade.phase = "runner"
    /\ CheckedDrop = REGIME_DETERIORATION_THRESHOLD
    /\ trades[checked.id].phase = "runner"

\* the last _check_exits_on_bar call made an exit: it closed the trade or
\* took its partial exit
CheckedExit == checked.id # 0 /\ trades[checked.id].phase # checked.trade.phase

CheckedFlagged == checked.bar.is_phantom \/ checked.bar.is_gap_adjacent

\* the price recorded for that exit
CheckedFillPrice ==
    IF trades[checked.id].phase = "runner"
    THEN trades[checked.id].partial_exit_price
    ELSE trades[checked.id].close_price

\* the nominal level of that exit: the 1.5R target, the original stop, the
\* trailing stop as updated on the bar, or the bar's close
CheckedNominal ==
    IF trades[checked.id].phase = "runner"
    THEN calculate_1_5r_price(checked.trade.entry_price, checked.trade.sl_price,
                              checked.trade.direction)
    ELSE IF trades[checked.id].close_reason = "SL_HIT" THEN checked.trade.sl_price
    ELSE IF trades[checked.id].close_reason = "CHANDELIER_HIT"
    THEN trades[checked.id].chandelier_sl
    ELSE checked.bar.close

\* the level the engine passes to the account for that exit
CheckedLevel ==
    IF CheckedFlagged THEN checked.bar.tick_boundary_price ELSE CheckedNominal

(* C22, as stated: an exit made on a phantom or gap-adjacent bar is        *)
(* recorded at the bar's tick_boundary_price, an exit made on any other    *)
(* bar at its nominal level                                                *)
C22_FillsAtLevel == CheckedExit => CheckedFillPrice = CheckedLevel

(* C22, amended: an exit made on a phantom or gap-adjacent bar is recorded *)
(* at the bar's tick_boundary_price worsened by the exit slippage, an exit *)
(* made on any other bar at its nominal level worsened by the exit         *)
(* slippage                                                                *)
C22_FillsAtLevelLessSlippage ==
    CheckedExit =>
        CheckedFillPrice = apply_exit_slippage(CheckedLevel, checked.trade.direction,
                                               checked.trade.pair)

\* a runner stopped by its trailing stop on a phantom or gap-adjacent bar,
\* the tick boundary lying away from the trailing stop
C22_Witness ==
    /\ CheckedExit
    /\ CheckedFlagged
    /\ trades[checked.id].close_reason = "CHANDELIER_HIT"
    /\ checked.bar.tick_boundary_price # trades[checked.id].chandelier_sl
    /\ trades[checked.id].close_price
         = apply_exit_slippage(checked.bar.tick_boundary_price,
                               checked.trade.direction, checked.trade.pair)

(* C24: reset_daily_if_needed zeroes daily_r_used and daily_trade_count    *)
(* and returns True exactly when the date of its timestamp is later than   *)
(* the last reset date or no reset was made yet; otherwise it returns      *)
(* False and leaves both counters; in neither case does it change the      *)
(* equity, the trades, open_trades, closed_trades or the equity history    *)
C24_DailyReset ==
    [][bar_count' = bar_count =>
         /\ IF \/ last_reset_date = -1
               \/ date(ret'.current_time) > last_reset_date
            THEN /\ ret'.returned
                 /\ daily_r_used' = 0
                 /\ daily_trade_count' = 0
                 /\ last_reset_date' = date(ret'.current_time)
            ELSE /\ ~ret'.returned
                 /\ UNCHANGED <<daily_r_used, daily_trade_count, last_reset_date>>
         /\ UNCHANGED <<equity, trades, open_trades, closed_trades, equity_history>>
      ]_vars

\* a reset on day 1 cleared the loss of a trade stopped out on day 0
C24_Witness ==
    /\ ret = [current_time |-> 1441, returned |-> TRUE]
    /\ last_reset_date = 1
    /\ daily_r_used = 0
    /\ daily_trade_count = 0
    /\ \E i \in 1..Len(trades) :
         /\ trades[i].phase = "closed"
         /\ trades[i].r_multiple_total < 0
         /\ date(trades[i].close_time) = 0

\* the trailing distance of the trade of the last call: the largest of half
\* its initial risk, the ATR estimate and the pip floor of its pair
CheckedTrailingDistance ==
    Max3((checked.trade.initial_r_pips * PIP_SIZE) \div 2,
         _estimate_atr(checked.trade.pair),
         _chandelier_floor_pips(checked.trade.pair) * PIP_SIZE)

CheckedRange == checked.bar.high - checked.bar.low

(* C39: a runner that is not force-closed for regime deterioration on a    *)
(* bar is closed with CHANDELIER_HIT by every bar whose range high - low   *)
(* is at least its trailing distance max(0.5R, ATR, pip floor), whichever  *)
(* way the bar moved; a trade that was in phase open when the bar was      *)
(* checked, and so may have exited partially on it, is not closed by its   *)
(* trailing stop on that bar.                                              *)
C39_WideBarClosesRunner ==
    checked.id # 0 =>
      /\ (/\ checked.trade.phase = "runner"
          /\ ~should_force_close_runner(checked.trade.composite_score,
                                        checked.current_composite_score)
          /\ CheckedRange >= CheckedTrailingDistance)
         => /\ trades[checked.id].phase = "closed"
            /\ trades[checked.id].close_reason = "CHANDELIER_HIT"
      /\ checked.trade.phase = "open"
         => trades[checked.id].close_reason # "CHANDELIER_HIT"

\* a long runner closed by a bar that lies wholly above the stop it had
\* before the bar
C39_Witness ==
    /\ checked.id # 0
    /\ checked.trade.phase = "runner"
    /\ checked.trade.direction = "BUY"
    /\ checked.bar.low > checked.trade.chandelier_sl
    /\ CheckedRange >= CheckedTrailingDistance
    /\ trades[checked.id].close_reason = "CHANDELIER_HIT"
    /\ trades[checked.id].chandelier_sl = checked.bar.high - CheckedTrailingDistance

\* the same for a short runner
C39_ShortRunner ==
    /\ checked.id # 0
    /\ checked.trade.phase = "runner"
    /\ checked.trade.direction = "SELL"
    /\ checked.bar.high < checked.trade.chandelier_sl
    /\ CheckedRange >= CheckedTrailingDistance
    /\ trades[checked.id].close_reason = "CHANDELIER_HIT"

\* a trade exited partially on a bar that reaches below its first trailing
\* stop, and is still a runner after the bar
C39_PartialExitBarNotTested ==
    /\ checked.id # 0
    /\ checked.trade.phase = "open"
    /\ trades[checked.id].phase = "runner"
    /\ trades[checked.id].direction = "BUY"
    /\ checked.bar.low <= trades[checked.id].chandelier_sl

\* a runner kept by a bar narrower than its trailing distance
C39_NarrowBarKeepsRunner ==
    /\ checked.id # 0
    /\ checked.trade.phase = "runner"
    /\ CheckedRange < CheckedTrailingDistance
    /\ trades[checked.id].phase = "runner"

-----------------------------------------------------------------------------
(* The event queue of run(): every bar of every configured pair is pushed  *)
(* as the tuple (end_time, pair, idx, row), pair after pair in the order   *)
(* of self.pairs, then the tuples are popped until the heap is empty       *)

MaxQueueBars == 2

\* the end_time values of the bars in the replay window
QueueTimes == {600, 2040, 2740}

Event(end_time, pair, idx) == [end_time |-> end_time, pair |-> pair, idx |-> idx]

\* Python's order on the pair names: "EURUSD" < "USDJPY"
StrLess(a, b) == a = "EURUSD" /\ b = "USDJPY"

\* faulty variant of TupleLess: the pair name is compared before the time
TupleLessPairFirst(a, b) ==
    \/ StrLess(a.pair, b.pair)
    \/ a.pair = b.pair /\ a.end_time < b.end_time
    \/ a.pair = b.pair /\ a.end_time = b.end_time /\ a.idx < b.idx

\* faulty variant of TupleLess: among equal times the bar index is compared
\* before the pair name
TupleLessIdxFirst(a, b) ==
    \/ a.end_time < b.end_time
    \/ a.end_time = b.end_time /\ a.idx < b.idx
    \/ a.end_time = b.end_time /\ a.idx = b.idx /\ StrLess(a.pair, b.pair)

\* the order heapq applies to the tuples: end_time, then pair, then idx
TupleLess(a, b) ==
    \/ a.end_time < b.end_time
    \/ a.end_time = b.end_time /\ StrLess(a.pair, b.pair)
    \/ a.end_time = b.end_time /\ a.pair = b.pair /\ a.idx < b.idx

\* heapq.heappop(heap): the smallest tuple
heappop(h) == CHOOSE e \in h : \A o \in h \ {e} : TupleLess(e, o)

\* the pairs whose bars have been pushed
PushedPairs == {pushed[i].pair : i \in 1..Len(pushed)}

\* for pair in self.pairs: for idx, row in filtered.iterrows(): heappush
Push(pair, end_time) ==
    /\ processed = <<>>
    /\ LET last == pushed[Len(pushed)]
           same == pushed # <<>> /\ last.pair = pair
           idx == IF same THEN last.idx + 1 ELSE 0
       IN /\ same \/ pair \notin PushedPairs
          /\ same => end_time >= last.end_time
          /\ idx < MaxQueueBars
          /\ heap' = heap \cup {Event(end_time, pair, idx)}
          /\ pushed' = Append(pushed, Event(end_time, pair, idx))
    /\ UNCHANGED <<processed, dcrdVars, acctVars, loopVars, brainVars, cycleVars, exitVars, feedVars>>

\* while heap: end_time, pair, bar_idx, bar = heapq.heappop(heap)
Pop ==
    /\ heap # {}
    /\ processed' = Append(processed, heappop(heap))
    /\ heap' = heap \ {heappop(heap)}
    /\ UNCHANGED <<pushed, dcrdVars, acctVars, loopVars, brainVars, cycleVars, exitVars, feedVars>>

NextQueue ==
    \/ \E pair \in Pairs, end_time \in QueueTimes : Push(pair, end_time)
    \/ Pop

SpecQueue == Init /\ [][NextQueue]_vars

\* the position of an event in the insertion order
Inserted(e) == CHOOSE i \in 1..Len(pushed) : pushed[i] = e

(* C13: bar events are processed in non-decreasing end_time order: no bar  *)
(* is processed after a bar, of any instrument, with a strictly later      *)
(* end_time, and no bar still queued is earlier than a processed one.      *)
C13_ChronologicalOrder ==
    /\ \A i, j \in 1..Len(processed) :
          i < j => processed[i].end_time <= processed[j].end_time
    /\ \A i \in 1..Len(processed) : \A e \in heap :
          processed[i].end_time <= e.end_time

\* bars of both pairs were pushed pair after pair and popped interleaved
C13_Witness ==
    /\ heap = {}
    /\ Len(processed) = 4
    /\ processed # pushed
    /\ processed[1].pair # processed[2].pair
    /\ processed[1].end_time < processed[2].end_time
    /\ processed[2].end_time < processed[3].end_time

-----------------------------------------------------------------------------
(* Successive runs: run() replays a script of events, then a second run    *)
(* replays the same script, either on the same BacktestEngine, as          *)
(* WalkForwardManager.run_all calls engine.run once per cycle, or on a     *)
(* newly constructed one, as run_backtest.py builds one per invocation     *)

MaxCycleBars == 2

\* raw composites of the scored pair: neutral, and deep in the trending zone
CycleScores == {50, 100}
\* a quiet bar that closes off the entry price, and a bar that runs up 1.5R
CycleShapes ==
    { <<110000, 110300, 110200, "none", 110200>>,
      <<110000, 111500, 110000, "none", 110000>> }
CYCLE_TIME == 600

\* what the data and the strategy give for one event: the bar, the outcome
\* of the scoring, and what the strategy proposes: nothing, a sized
\* proposal, or a sized proposal whose stop is its entry price
CycleInputs ==
    {[pair |-> pair, shape |-> shape, outcome |-> outcome, propose |-> propose] :
        pair \in Pairs, shape \in CycleShapes,
        outcome \in {[scored |-> TRUE, raw |-> x] : x \in CycleScores} \cup {Fallback},
        propose \in {"none", "sized", "zero_risk"}}

\* the inputs the data can give: the pair without higher-timeframe data is
\* never scored, and the scoring of the other pair may raise on any bar
CycleInputOk(in) == in.outcome.scored => in.pair \in ScoredPairs

\* a proposal whose risk distance |entry - sl| is zero; the gating pipeline
\* sizes it to the minimum lot (calculate_lot_size with sl_pips <= 0)
ZeroRiskProposal(direction, composite_score) ==
    LET signal == Proposal(direction, composite_score, FALSE, 1)
    IN [signal EXCEPT !.sl = signal.entry]

\* the proposal of the strategy for the score the engine passes it
CycleSignal(in, composite_score) ==
    IF in.propose = "sized" THEN Proposal(Side(in.pair), composite_score, FALSE, 1)
    ELSE IF in.propose = "zero_risk"
    THEN ZeroRiskProposal(Side(in.pair), composite_score)
    ELSE NoSignal

\* the loop body on the event of the script entry in
CycleStep(in) ==
    \E b \in {Bar(in.pair, CYCLE_TIME, in.shape)} :
    \E signal \in {CycleSignal(in, _compute_dcrd(dcrd_state, in.pair,
                                                 in.outcome).score)} :
    LET r == LoopBody(Acct, dcrd_state, last_close, rb_window_cache, b,
                      in.outcome, signal)
    IN /\ SetAccount(r.acct)
       /\ dcrd_state' = r.dcrd
       /\ last_close' = r.lc
       /\ rb_window_cache' = r.win
       /\ step' = r.step
       /\ performance_tracker' = TrackerAfterBar(performance_tracker, Acct', step',
                                                 b.end_time)
       /\ _states' = StatesAfter(_states, NewCalls(performance_tracker,
                                                   performance_tracker'))
       /\ now' = b.end_time
       /\ bar_count' = bar_count + 1
       /\ UNCHANGED <<ret, call, hist, queueVars, exitVars, feedVars>>

\* the classifier state of every pair, as _get_state would return it
Hysteresis(st) == [p \in Pairs |-> _get_state(st, p)]

\* a run pops an event: the first run any event the data can give, the
\* second run the event the first run popped at the same position
CycleBar(in) ==
    /\ Running
    /\ IF cycle.run = 1
       THEN /\ Len(cycle.script) < MaxCycleBars
            /\ CycleInputOk(in)
       ELSE /\ cycle.pos < Len(cycle.script)
            /\ in = cycle.script[cycle.pos + 1]
    /\ CycleStep(in)
    /\ cycle' = IF cycle.run = 1
                THEN [cycle EXCEPT !.script = Append(@, in),
                        !.start = IF @ = <<>> THEN <<Hysteresis(dcrd_state)>> ELSE @]
                ELSE [cycle EXCEPT !.pos = @ + 1]

\* what a run decided: the exits of every trade and the equity samples
RunLog(A) ==
    [exits |-> [i \in 1..Len(A.trades) |->
                  [phase |-> A.trades[i].phase,
                   partial_exit_price |-> A.trades[i].partial_exit_price,
                   partial_exit_time |-> A.trades[i].partial_exit_time,
                   close_price |-> A.trades[i].close_price,
                   close_time |-> A.trades[i].close_time,
                   close_reason |-> A.trades[i].close_reason]],
     equity |-> A.equity_history]

\* the heap is empty: the run closes what is still open and returns
CycleEnd ==
    /\ Running
    /\ cycle.script # <<>>
    /\ cycle.run = 2 => cycle.pos = Len(cycle.script)
    /\ LET A == CloseAll(Acct, open_trades, last_close, END_TIME, "WEEKEND_CLOSE")
       IN /\ SetAccount(A)
          /\ cycle' = [cycle EXCEPT !.log = Append(@, RunLog(A))]
    /\ step' = [NoStep EXCEPT !.kind = "end",
                              !.before = [i \in 1..Len(trades) |-> trades[i].phase],
                              !.after_exits = open_trades,
                              !.r_after_exits = daily_r_used,
                              !.score = step.score]
    /\ UNCHANGED <<dcrdVars, last_close, rb_window_cache, bar_count, now,
                   queueVars, exitVars, feedVars, brainVars>>

\* run() starts: a new account and new loop locals, after the warm-up
RunStart ==
    /\ trades' = <<>>
    /\ open_trades' = <<>>
    /\ closed_trades' = <<>>
    /\ equity' = INITIAL_EQUITY
    /\ daily_r_used' = 0
    /\ daily_trade_count' = 0
    /\ last_reset_date' = 0
    /\ equity_history' = <<>>
    /\ last_close' = [p \in Pairs |-> 110000]
    /\ rb_window_cache' = WarmBars
    /\ bar_count' = WarmCount
    /\ now' = CYCLE_TIME
    /\ step' = [NoStep EXCEPT !.kind = "no_entry"]

\* the second run is made on a newly constructed BacktestEngine
NewEngine ==
    /\ cycle.run = 1
    /\ step.kind = "end"
    /\ RunStart
    /\ dcrd_state' = <<>>
    /\ performance_tracker' = <<>>
    /\ _states' = <<>>
    /\ cycle' = [cycle EXCEPT !.run = 2, !.rebuilt = TRUE,
                              !.start = Append(@, Hysteresis(<<>>))]
    /\ UNCHANGED <<ret, call, hist, queueVars, exitVars, feedVars>>

\* the second run is made on the same BacktestEngine: engine.run(...) again
SameEngine ==
    /\ cycle.run = 1
    /\ step.kind = "end"
    /\ RunStart
    /\ cycle' = [cycle EXCEPT !.run = 2,
                              !.start = Append(@, Hysteresis(dcrd_state))]
    /\ UNCHANGED <<dcrdVars, queueVars, exitVars, feedVars, brainVars>>

NextCycles ==
    \/ \E in \in CycleInputs : CycleBar(in)
    \/ CycleEnd
    \/ NewEngine
    \/ SameEngine

SpecCycles == InitRun /\ [][NextCycles]_vars

\* the trades that were still open when the event stream was exhausted
OpenAtExhaustion == {i \in DOMAIN step.before : step.before[i] # "closed"}

(* C15: when run() returns the account has no open trade, every trade      *)
(* opened during the run is in the closed-trade log exactly once, and a    *)
(* trade still open when the event stream was exhausted was closed through *)
(* the account at the last observed close of its own instrument (filled at *)
(* that price less the exit slippage) with close_time equal to the end     *)
(* timestamp of the run.                                                   *)
C15_NothingOpenAtReturn ==
    step.kind = "end" =>
        /\ open_trades = <<>>
        /\ Len(closed_trades) = Len(trades)
        /\ \A i \in 1..Len(trades) :
              /\ trades[i].phase = "closed"
              /\ Cardinality({k \in 1..Len(closed_trades) : closed_trades[k] = i}) = 1
        /\ \A i \in OpenAtExhaustion :
              /\ trades[i].close_time = END_TIME
              /\ trades[i].close_reason = "WEEKEND_CLOSE"
              /\ trades[i].close_price
                   = apply_exit_slippage(last_close[trades[i].pair],
                                         trades[i].direction, trades[i].pair)
        /\ \A i \in (1..Len(trades)) \ OpenAtExhaustion :
              trades[i].close_time < END_TIME

\* the run returned with a trade of each instrument force-closed, the two
\* instruments having last closed at different prices
C15_Witness ==
    /\ step.kind = "end"
    /\ last_close["EURUSD"] # last_close["USDJPY"]
    /\ \E i, j \in OpenAtExhaustion :
          /\ trades[i].pair = "EURUSD"
          /\ trades[j].pair = "USDJPY"
          /\ trades[i].close_price = last_close["EURUSD"] - SlipPrice
          /\ trades[j].close_price = last_close["USDJPY"] + SlipPrice

\* both runs have returned
Compared == Len(cycle.log) = 2

(* C19, as stated: two runs given the same bar data, configuration and     *)
(* instrument list produce the same exit decisions (phases, close reasons, *)
(* fill prices and times) and the same sequence of equity samples.         *)
C19_RunsCoincide ==
    Compared => cycle.log[1] = cycle.log[2]

(* C20: the confirmed and pending regime state a run starts from does not  *)
(* depend on the raw scores fed during an earlier run, successive run()    *)
(* calls on one engine included: every run starts from the state of a new  *)
(* classifier.                                                             *)
C20_RunStartsFresh ==
    \A k \in 1..Len(cycle.start) : cycle.start[k] = Hysteresis(<<>>)

\* the event the step pops, or <<>> when the step pops none
PoppedInput ==
    IF cycle'.run = 1 /\ Len(cycle'.script) > Len(cycle.script)
    THEN <<cycle'.script[Len(cycle'.script)]>>
    ELSE IF cycle'.run = 2 /\ cycle.run = 2 /\ cycle'.pos > cycle.pos
    THEN <<cycle'.script[cycle'.pos]>>
    ELSE <<>>

(* C25: a bar whose scoring fails (higher-timeframe data missing or too   *)
(* short, or the scoring raising) is given the fallback score 50, regime   *)
(* transitional, the classifier state is left as it was, and the loop body *)
(* runs on that bar as on any other: the stops and targets it touches are  *)
(* resolved, the bar ends in one of the branches of the loop, and a trade  *)
(* opened on it carries the fallback score                                 *)
C25_FallbackOnScoringFailure ==
    [][\A k \in DOMAIN PoppedInput :
         ~PoppedInput[k].outcome.scored =>
           /\ step'.score = _DCRD_FALLBACK_SCORE
           /\ _raw_regime(step'.score) = REGIME_TRANSITIONAL
           /\ dcrd_state' = dcrd_state
           /\ bar_count' = bar_count + 1
           /\ step'.kind \in {"cap", "weekend", "short_window", "entry", "no_entry"}
           /\ \A i \in step'.sl_touch : trades'[i].phase = "closed"
           /\ \A i \in step'.target_touch \ step'.sl_touch : trades'[i].phase # "open"
           /\ step'.kind = "entry"
                => trades'[step'.opened].composite_score = _DCRD_FALLBACK_SCORE
      ]_vars

\* the scoring of the scored pair raised on the second bar of the first
\* run, and that bar took the partial exit of the trade opened on the first
C25_Witness ==
    /\ cycle.run = 1
    /\ Running
    /\ Len(cycle.script) = 2
    /\ cycle.script[1].outcome.scored
    /\ cycle.script[2].pair \in ScoredPairs
    /\ ~cycle.script[2].outcome.scored
    /\ step.score = _DCRD_FALLBACK_SCORE
    /\ \E i \in step.target_touch :
         /\ trades[i].phase = "runner"
         /\ trades[i].partial_exit_time = now

\* the event popped last, or <<>> before the first of a run
LastInput ==
    IF cycle.run = 1 /\ Running /\ cycle.script # <<>>
    THEN <<cycle.script[Len(cycle.script)]>>
    ELSE IF cycle.run = 2 /\ Running /\ cycle.pos > 0
    THEN <<cycle.script[cycle.pos]>>
    ELSE <<>>

(* C28: a bar on which the strategy's proposal has a risk distance         *)
(* |entry - stop| of zero opens no trade                                   *)
C28_ZeroRiskProposalSkipped ==
    \A k \in DOMAIN LastInput :
        LastInput[k].propose = "zero_risk" => step.opened = 0

-----------------------------------------------------------------------------
(* Forced liquidations: the replay loop fed bars that close at different   *)
(* prices, neither pair having higher-timeframe data, on Thursday morning  *)
(* and inside the week-end window                                          *)

\* two quiet bars closing at different prices, and a phantom bar that gaps
\* two and a half risk distances below the entry price
LiqShapes ==
    { <<110000, 110300, 110000, "none", 110000>>,
      <<110000, 110300, 110200, "none", 110200>>,
      <<108500, 110000, 108600, "phantom", 107500>> }

\* 10:00 of day 0 and 21:40 of the Friday
LiqTimes == {600, 2740}

\* the strategy proposes nothing or a sized trade
LiqSignals(pair) == {NoSignal, Proposal(Side(pair), _DCRD_FALLBACK_SCORE, FALSE, 1)}

NextLiq ==
    \E pair \in Pairs, end_time \in LiqTimes, shape \in LiqShapes :
       \E signal \in LiqSignals(pair) :
          ProcessBar(Bar(pair, end_time, shape), Fallback, signal)

SpecLiq == InitRun /\ [][NextLiq]_vars

\* the trades the bar processed last closed in a forced liquidation
Liquidated ==
    {i \in DOMAIN step.before :
        /\ step.before[i] # "closed"
        /\ trades[i].phase = "closed"
        /\ trades[i].close_time = now
        /\ trades[i].close_reason \in {"2R_CAP", "WEEKEND_CLOSE"}}

(* C32: every trade closed by a forced liquidation (2R_CAP or              *)
(* WEEKEND_CLOSE) of a bar is closed through the account at the last close *)
(* observed for its own instrument, which exists, whatever the close of    *)
(* the bar that triggered the liquidation                                  *)
C32_LiquidatedAtOwnLastClose ==
    Running =>
        \A i \in Liquidated :
            /\ trades[i].pair \in DOMAIN last_close
            /\ trades[i].close_price
                 = apply_exit_slippage(last_close[trades[i].pair],
                                       trades[i].direction, trades[i].pair)

\* a phantom bar of one instrument hit the daily cap, and the trade of the
\* other instrument was liquidated at that instrument's own last close
C32_Witness ==
    /\ step.kind = "cap"
    /\ last_close["EURUSD"] = 108600
    /\ last_close["USDJPY"] = 110200
    /\ \E i \in Liquidated :
         /\ trades[i].pair = "USDJPY"
         /\ trades[i].close_reason = "2R_CAP"
         /\ trades[i].close_price = 110210

-----------------------------------------------------------------------------
(* The rolling windows: the loop entered when one pair is about to reach   *)
(* _MIN_BARS_FOR_DCRD bars, or about to pass WINDOW_CAP bars               *)

\* the windows after WarmCount no-trade bars: 572 of EURUSD and 28 of
\* USDJPY, or 299 of EURUSD and 301 of USDJPY
WindowStarts ==
    { [p \in Pairs |-> IF p = "EURUSD"
                       THEN [first |-> 572 - WINDOW_CAP + 1, last |-> 572]
                       ELSE [first |-> 1, last |-> 28]],
      [p \in Pairs |-> IF p = "EURUSD"
                       THEN [first |-> 1, last |-> 299]
                       ELSE [first |-> 2, last |-> 301]] }

InitWindow ==
    /\ InitDcrd /\ InitAccount /\ InitQueue /\ InitBrain /\ InitCycle
    /\ InitExit /\ InitFeed
    /\ last_close = [p \in Pairs |-> 110000]
    /\ rb_window_cache \in WindowStarts
    /\ bar_count = WarmCount
    /\ now = 600
    /\ step = [NoStep EXCEPT !.kind = "no_entry"]

NextWindow ==
    \E pair \in Pairs, end_time \in LiqTimes, shape \in LiqShapes :
       \E signal \in LiqSignals(pair) :
          ProcessBar(Bar(pair, end_time, shape), Fallback, signal)

SpecWindow == InitWindow /\ [][NextWindow]_vars

\* the loop body reached brain.process on the bar of the step
StrategyInvoked == step'.kind \in {"entry", "no_entry"}

(* C34: the rolling window of a pair never holds more than WINDOW_CAP      *)
(* (300) bars: the bar popped is appended to the window of its pair as the *)
(* newest and, when that window was full, its oldest bar is dropped; the   *)
(* strategy is invoked for a bar only when the window of its pair, the bar *)
(* included, holds at least _MIN_BARS_FOR_DCRD (30) bars.                  *)
C34_RollingWindow ==
    [][/\ \A pair \in Pairs : WindowLen(rb_window_cache'[pair]) <= WINDOW_CAP
       /\ bar_count' # bar_count
          => \E pair \in Pairs :
                /\ rb_window_cache'[pair].last = rb_window_cache[pair].last + 1
                /\ rb_window_cache'[pair].first
                      = IF WindowLen(rb_window_cache[pair]) = WINDOW_CAP
                        THEN rb_window_cache[pair].first + 1
                        ELSE rb_window_cache[pair].first
                /\ \A other \in Pairs \ {pair} :
                      rb_window_cache'[other] = rb_window_cache[other]
                /\ StrategyInvoked
                   => WindowLen(rb_window_cache'[pair]) >= _MIN_BARS_FOR_DCRD]_vars

\* the 301st bar of EURUSD pushed bar 1 out of its window, and a trade was
\* opened on it
C34_Witness ==
    /\ rb_window_cache["EURUSD"] = [first |-> 2, last |-> 301]
    /\ step.kind = "entry"
    /\ Len(trades) = 1 /\ trades[1].pair = "EURUSD"

\* the 29th bar of USDJPY was not shown to the strategy
C34_ShortWindow ==
    /\ rb_window_cache["USDJPY"] = [first |-> 1, last |-> 29]
    /\ step.kind = "short_window"

\* the 30th bar of USDJPY was shown to the strategy, which opened a trade
C34_ThirtiethBar ==
    /\ rb_window_cache["USDJPY"] = [first |-> 1, last |-> 30]
    /\ rb_window_cache["EURUSD"].last = 572
    /\ step.kind = "entry"

-----------------------------------------------------------------------------
(* The performance tracker on its own: add_trade and reset_cooldown called *)
(* on a tracker that has already recorded one of TrackerHistories          *)

MaxTrackerCalls == 3   \* calls made after the recorded history

Strategies == {"TrendRider", "BreakoutRider"}
TrackerResults == {-100, 150}     \* realized R of a recorded trade, in 1/100 R
TrackerGaps == {60, 1500}         \* minutes between two recorded trades

\* k records of one strategy, one a minute from minute first on
Recorded(strategy, r_result, is_weekend_close, first, k) ==
    [i \in 1..k |-> [strategy |-> strategy, r_result |-> r_result,
                     timestamp |-> first + i - 1,
                     is_weekend_close |-> is_weekend_close]]

\* nothing recorded; four losses of TrendRider; four losses of TrendRider
\* followed by five of its trades closed for the week-end
TrackerHistories ==
    { <<>>,
      Recorded("TrendRider", -100, FALSE, 1, 4),
      Recorded("TrendRider", -100, FALSE, 1, 4)
         \o Recorded("TrendRider", -100, TRUE, 5, 5) }

InitTracker ==
    /\ InitDcrd /\ InitAccount /\ InitQueue /\ InitCycle /\ InitExit /\ InitFeed
    /\ last_close = <<>>
    /\ rb_window_cache = [p \in Pairs |-> EmptyWindow]
    /\ bar_count = 0
    /\ now = 60
    /\ step = NoStep
    /\ \E history \in TrackerHistories :
          /\ performance_tracker = history
          /\ _states = StatesAfter(<<>>, history)

\* tracker.add_trade(strategy, r_result, timestamp, is_weekend_close)
AddTrade(strategy, r_result, timestamp, is_weekend_close) ==
    /\ bar_count < MaxTrackerCalls
    /\ _states' = PerformanceTracker_add_trade(_states, strategy, r_result,
                                               timestamp, is_weekend_close)
    /\ performance_tracker' = add_trade(performance_tracker, strategy, r_result,
                                        timestamp, is_weekend_close)
    /\ now' = timestamp
    /\ bar_count' = bar_count + 1
    /\ UNCHANGED <<dcrdVars, acctVars, last_close, rb_window_cache, step,
                   queueVars, exitVars, feedVars, cycleVars>>

\* tracker.reset_cooldown(strategy)
ResetCooldown(strategy) ==
    /\ bar_count < MaxTrackerCalls
    /\ _get(_states, strategy).cooldown_until # -1
    /\ _states' = PerformanceTracker_reset_cooldown(_states, strategy)
    /\ bar_count' = bar_count + 1
    /\ UNCHANGED <<performance_tracker, now, dcrdVars, acctVars, last_close,
                   rb_window_cache, step, queueVars, exitVars, feedVars, cycleVars>>

NextTracker ==
    \/ \E strategy \in Strategies, r_result \in TrackerResults,
          gap \in TrackerGaps, is_weekend_close \in BOOLEAN :
          AddTrade(strategy, r_result, now + gap, is_weekend_close)
    \/ \E strategy \in Strategies : ResetCooldown(strategy)

SpecTracker == InitTracker /\ [][NextTracker]_vars

\* the last COOLDOWN_WINDOW recorded trades of a strategy, oldest first
LastRecorded(tracker, strategy) ==
    LET own == SelectSeq(tracker, LAMBDA c : c.strategy = strategy)
    IN IF Len(own) > COOLDOWN_WINDOW
       THEN SubSeq(own, Len(own) - COOLDOWN_WINDOW + 1, Len(own))
       ELSE own

\* the run of consecutive losses of a strategy, counted from the newest of
\* its last COOLDOWN_WINDOW recorded trades, the week-end closures left out
LossRun(tracker, strategy) ==
    LET f == SelectSeq(LastRecorded(tracker, strategy),
                       LAMBDA c : ~c.is_weekend_close)
    IN Cardinality({k \in 1..Len(f) :
                      \A j \in (Len(f) - k + 1)..Len(f) : f[j].r_result < 0})

\* the add_trade call of a step that records a trade
Recording == Len(performance_tracker') = Len(performance_tracker) + 1
LastCall == performance_tracker'[Len(performance_tracker')]

\* the strategy's cooldown is started by the step
EntersCooldown(strategy) ==
    /\ _get(_states', strategy).cooldown_until
          # _get(_states, strategy).cooldown_until
    /\ _get(_states', strategy).cooldown_until
          = LastCall.timestamp + COOLDOWN_HOURS * 60
    /\ is_in_cooldown(_get(_states', strategy), LastCall.timestamp)

(* C35: a strategy enters its cooldown exactly when a recorded losing      *)
(* trade that is not a week-end closure brings its run of consecutive      *)
(* non-week-end losses, counted from the newest of its last 10 recorded    *)
(* trades, to 5; week-end closures neither count toward nor interrupt the  *)
(* run; one strategy's losses never put another strategy into cooldown.    *)
C35_CooldownAtRunOfFive ==
    [][Recording =>
         \A strategy \in Strategies :
            EntersCooldown(strategy)
            <=> /\ LastCall.strategy = strategy
                /\ ~LastCall.is_weekend_close
                /\ LastCall.r_result < 0
                /\ LossRun(performance_tracker', strategy)
                      = COOLDOWN_LOSSES_IN_WINDOW]_vars

(* C35, amended: a strategy enters its cooldown exactly when a recorded    *)
(* losing trade that is not a week-end closure brings its run of           *)
(* consecutive non-week-end losses, counted from the newest of its last 10 *)
(* recorded trades, to 5 or more; week-end closures neither count toward   *)
(* nor interrupt the run, 4 consecutive losses do not trigger it, and one  *)
(* strategy's losses never put another strategy into cooldown.             *)
C35_CooldownAtRunOfFiveOrMore ==
    [][Recording =>
         \A strategy \in Strategies :
            /\ EntersCooldown(strategy)
               <=> /\ LastCall.strategy = strategy
                   /\ ~LastCall.is_weekend_close
                   /\ LastCall.r_result < 0
                   /\ LossRun(performance_tracker', strategy)
                         >= COOLDOWN_LOSSES_IN_WINDOW
            /\ ~EntersCooldown(strategy)
               => _get(_states', strategy).cooldown_until
                     = _get(_states, strategy).cooldown_until]_vars

\* the fifth loss of TrendRider, recorded after a week-end closure that
\* followed the first four, has started its cooldown; BreakoutRider, which
\* has a loss of its own, has none
C35_Witness ==
    /\ Len(performance_tracker) = 7
    /\ performance_tracker[5].strategy = "TrendRider"
    /\ performance_tracker[5].is_weekend_close
    /\ performance_tracker[6].strategy = "BreakoutRider"
    /\ performance_tracker[6].r_result < 0
    /\ ~performance_tracker[6].is_weekend_close
    /\ performance_tracker[7].strategy = "TrendRider"
    /\ performance_tracker[7].r_result < 0
    /\ ~performance_tracker[7].is_weekend_close
    /\ _get(_states, "TrendRider").cooldown_until = now + COOLDOWN_HOURS * 60
    /\ _get(_states, "BreakoutRider").cooldown_until = -1

\* a sixth consecutive loss recorded after the cooldown of the fifth has
\* run out starts the cooldown again
C35_SixthLossEntersAgain ==
    /\ Len(performance_tracker) = 6
    /\ \A k \in 1..6 : /\ performance_tracker[k].strategy = "TrendRider"
                       /\ performance_tracker[k].r_result < 0
                       /\ ~performance_tracker[k].is_weekend_close
    /\ performance_tracker[6].timestamp
          >= performance_tracker[5].timestamp + COOLDOWN_HOURS * 60
    /\ _get(_states, "TrendRider").cooldown_until = now + COOLDOWN_HOURS * 60

\* the oldest of four losses has left the window of 10: a fifth loss
\* recorded after six week-end closures makes a run of 4 and starts nothing
C35_WindowDropsOldLoss ==
    /\ Len(performance_tracker) = 11
    /\ \A k \in 1..11 : performance_tracker[k].strategy = "TrendRider"
    /\ \A k \in 5..10 : performance_tracker[k].is_weekend_close
    /\ performance_tracker[11].r_result < 0
    /\ ~performance_tracker[11].is_weekend_close
    /\ _get(_states, "TrendRider").cooldown_until = -1

-----------------------------------------------------------------------------
(* src/range_bar_converter.py: RangeBarConverter.feed, called with ticks   *)
(* of TickPrices; timestamps are minutes                                   *)

MaxFeedTicks == 3       \* ticks fed to one converter

BAR_PIPS == 10                    \* RangeBarConverter(bar_pips=10, ...)
bar_size == BAR_PIPS * PIP_SIZE
WEEKEND_GAP_MINUTES == 240        \* WEEKEND_GAP_HOURS = 4.0

\* mid-prices: 1.1000, 3 pips above it, exactly one bar above and below it,
\* 31 pips above it, 32 pips below it
TickPrices == {110000, 110030, 110100, 109900, 110310, 109680}
TickGaps == {1, 3000}             \* minutes since the previous tick

RangeBar(open, high, low, close, tick_volume, start_time, end_time, is_phantom, is_gap_adjacent, tick_boundary_price) ==
    [open |-> open, high |-> high, low |-> low, close |-> close,
     tick_volume |-> tick_volume, start_time |-> start_time,
     end_time |-> end_time, is_phantom |-> is_phantom,
     is_gap_adjacent |-> is_gap_adjacent,
     tick_boundary_price |-> tick_boundary_price]

_open_bar(c, price, ts) ==
    [c EXCEPT !._bar_open = price, !._bar_high = price, !._bar_low = price,
              !._bar_start = ts, !._bar_tick_vol = 1]

_close_bar_up(c, ts, is_phantom, is_gap_adjacent, tick_boundary_price) ==
    LET close_price == c._bar_open + bar_size
        tbp == IF tick_boundary_price # 0 THEN tick_boundary_price ELSE close_price
    IN RangeBar(c._bar_open, close_price, c._bar_open, close_price,
                c._bar_tick_vol, c._bar_start, ts, is_phantom, is_gap_adjacent,
                tbp)

_close_bar_down(c, ts, is_phantom, is_gap_adjacent, tick_boundary_price) ==
    LET close_price == c._bar_open - bar_size
        tbp == IF tick_boundary_price # 0 THEN tick_boundary_price ELSE close_price
    IN RangeBar(c._bar_open, c._bar_open, close_price, close_price,
                c._bar_tick_vol, c._bar_start, ts, is_phantom, is_gap_adjacent,
                tbp)

\* the tick prices are even, so the mid of high and low is exact
_close_bar_gap(c, ts) ==
    RangeBar(c._bar_open, c._bar_high, c._bar_low,
             (c._bar_high + c._bar_low) \div 2, c._bar_tick_vol, c._bar_start,
             ts, FALSE, FALSE, 0)

_is_gap(c, ts) ==
    IF c._last_tick_ts = -1 THEN FALSE
    ELSE ts - c._last_tick_ts >= WEEKEND_GAP_MINUTES

\* if price > self._bar_high: ...; if price < self._bar_low: ...
Extremes(c, price) ==
    [c EXCEPT !._bar_high = IF price > @ THEN price ELSE @,
              !._bar_low = IF price < @ THEN price ELSE @]

\* faulty variant of IsPhantom: the first bar of a tick is flagged too
IsPhantomAlways(bars_from_this_tick) == bars_from_this_tick >= 0

\* is_phantom = bars_from_this_tick > 0
IsPhantom(bars_from_this_tick) == bars_from_this_tick > 0

\* the loop that closes up bars; L is the converter, the completed list and
\* bars_from_this_tick
RECURSIVE UpBars(_, _, _)
UpBars(L, price, ts) ==
    IF L.c._bar_high - L.c._bar_open >= bar_size
    THEN LET bar == _close_bar_up(L.c, ts, IsPhantom(L.n), FALSE, price)
         IN UpBars([c |-> Extremes(_open_bar(L.c, bar.close, ts), price),
                    completed |-> Append(L.completed, bar), n |-> L.n + 1],
                   price, ts)
    ELSE L

\* the loop that closes down bars
RECURSIVE DownBars(_, _, _)
DownBars(L, price, ts) ==
    IF L.c._bar_open - L.c._bar_low >= bar_size
    THEN LET bar == _close_bar_down(L.c, ts, IsPhantom(L.n), FALSE, price)
         IN DownBars([c |-> Extremes(_open_bar(L.c, bar.close, ts), price),
                      completed |-> Append(L.completed, bar), n |-> L.n + 1],
                     price, ts)
    ELSE L

\* faulty variant of MarkFirst: the first bar is left as the loop made it
MarkFirstNever(completed, bars_from_this_tick) == completed

\* the post-loop step: the first bar of a multi-bar tick is rebuilt with
\* is_phantom=False, is_gap_adjacent=True
MarkFirst(completed, bars_from_this_tick) ==
    IF bars_from_this_tick > 1
    THEN LET first_idx == Len(completed) - bars_from_this_tick + 1
         IN [completed EXCEPT ![first_idx] =
                [@ EXCEPT !.is_phantom = FALSE, !.is_gap_adjacent = TRUE]]
    ELSE completed

\* feed(price, ts): the converter it leaves and the list it returns
feed(c, price, ts) ==
    IF c._bar_open # -1 /\ _is_gap(c, ts)
    THEN [c |-> _open_bar([c EXCEPT !._last_tick_ts = ts], price, ts),
          completed |-> <<_close_bar_gap(c, c._last_tick_ts)>>]
    ELSE LET seen == [c EXCEPT !._last_tick_ts = ts]
         IN IF seen._bar_open = -1
            THEN [c |-> _open_bar(seen, price, ts), completed |-> <<>>]
            ELSE LET updated == [Extremes(seen, price) EXCEPT
                                    !._bar_tick_vol = @ + 1]
                     up == UpBars([c |-> updated, completed |-> <<>>, n |-> 0],
                                  price, ts)
                     down == DownBars(up, price, ts)
                 IN [c |-> down.c,
                     completed |-> MarkFirst(down.completed, down.n)]

InitFeedTicks ==
    /\ InitAccount /\ InitQueue /\ InitBrain /\ InitCycle /\ InitExit
    /\ InitFeed
    /\ dcrd_state = <<>>
    /\ call = NoCall
    /\ hist = [p \in Pairs |-> <<>>]
    /\ ret = [price |-> 0, ts |-> 0, gap |-> FALSE, completed |-> <<>>]
    /\ last_close = <<>>
    /\ rb_window_cache = [p \in Pairs |-> EmptyWindow]
    /\ bar_count = 0
    /\ now = 0
    /\ step = NoStep

\* bars = conv.feed(price, ts)
Feed(price, ts) ==
    /\ bar_count < MaxFeedTicks
    /\ LET r == feed(converter, price, ts)
       IN /\ converter' = r.c
          /\ ret' = [price |-> price, ts |-> ts,
                     gap |-> converter._bar_open # -1 /\ _is_gap(converter, ts),
                     completed |-> r.completed]
    /\ now' = ts
    /\ bar_count' = bar_count + 1
    /\ UNCHANGED <<dcrd_state, call, hist, acctVars, last_close,
                   rb_window_cache, step, queueVars, exitVars, brainVars,
                   cycleVars>>

NextFeed ==
    \E price \in TickPrices, gap \in TickGaps : Feed(price, now + gap)

SpecFeed == InitFeedTicks /\ [][NextFeed]_vars

(* C36: when a tick completes k range bars by its price: for k = 1 the bar *)
(* is neither phantom nor gap-adjacent; for k > 1 the first bar is         *)
(* gap-adjacent and not phantom and every later bar is phantom and not     *)
(* gap-adjacent; all k bars carry the tick's price as tick_boundary_price. *)
(* The bar closed because of a week-end time gap is never flagged phantom. *)
C36_PhantomFlags ==
    LET bars == ret.completed
        k == Len(bars)
    IN IF ret.gap
       THEN k = 1 /\ ~bars[1].is_phantom
       ELSE /\ k = 1 => ~bars[1].is_phantom /\ ~bars[1].is_gap_adjacent
            /\ k > 1 => /\ bars[1].is_gap_adjacent /\ ~bars[1].is_phantom
                        /\ \A i \in 2..k : /\ bars[i].is_phantom
                                           /\ ~bars[i].is_gap_adjacent
            /\ \A i \in 1..k : bars[i].tick_boundary_price = ret.price

\* a tick 32 pips below the open completed three down bars
C36_Witness ==
    /\ ~ret.gap
    /\ Len(ret.completed) = 3
    /\ ret.price = 109680
    /\ ret.completed[1].close = 109900
    /\ ret.completed[1].is_gap_adjacent
    /\ ret.completed[3].is_phantom
    /\ ret.completed[3].close = 109700
    /\ converter._bar_open = 109700

\* a tick completed exactly one bar
C36_SingleBar ==
    /\ ~ret.gap /\ Len(ret.completed) = 1
    /\ ret.completed[1].close = 110100 /\ ret.price = 110100

\* the first tick after a week-end closed the open bar
C36_GapClose ==
    /\ ret.gap /\ Len(ret.completed) = 1
    /\ ret.completed[1].high = 110030 /\ ret.completed[1].low = 110000
    /\ ret.completed[1].close = 110015
    /\ ret.completed[1].tick_boundary_price = 0

-----------------------------------------------------------------------------
(* The partial-exit fraction on its own: get_partial_exit_pct called with  *)
(* every composite score the classifier can return                         *)

FractionScores == 0..100

\* get_partial_exit_pct not called yet
NoFraction == [composite_score_at_entry |-> -1, returned |-> 0]

InitFraction ==
    /\ dcrd_state = <<>>
    /\ ret = NoFraction
    /\ call = NoCall
    /\ hist = [p \in Pairs |-> <<>>]
    /\ InitAccount /\ InitLoop /\ InitQueue /\ InitBrain /\ InitCycle /\ InitExit /\ InitFeed

\* pct = get_partial_exit_pct(composite_score_at_entry)
FractionCall(composite_score_at_entry) ==
    /\ ret' = [composite_score_at_entry |-> composite_score_at_entry,
               returned |-> get_partial_exit_pct(composite_score_at_entry)]
    /\ UNCHANGED <<dcrd_state, call, hist, acctVars, loopVars, queueVars,
                   exitVars, feedVars, brainVars, cycleVars>>

NextFraction == \E cs \in FractionScores : FractionCall(cs)

SpecFraction == InitFraction /\ [][NextFraction]_vars

(* C27: the partial-exit fraction returned for an entry score is 60% for   *)
(* a score above 85, 70% for a score from 70 to 85, 75% for a score from   *)
(* 30 to below 70 and 80% for a score below 30                             *)
C27_FractionTiers ==
    ret # NoFraction =>
        /\ ret.composite_score_at_entry > 85 => ret.returned = 60
        /\ (70 <= ret.composite_score_at_entry /\ ret.composite_score_at_entry <= 85)
             => ret.returned = 70
        /\ (30 <= ret.composite_score_at_entry /\ ret.composite_score_at_entry < 70)
             => ret.returned = 75
        /\ ret.composite_score_at_entry < 30 => ret.returned = 80

\* the call with the score 85, the upper end of the 70% tier
C27_Witness == ret = [composite_score_at_entry |-> 85, returned |-> 70]

====
